---- MODULE Spec2Model ----
(***************************************************************************)
(* ParquetFormatter API: the streaming ingestion / conversion / delivery   *)
(* pipeline (app/utils/uploads.py, app/routes/convert.py).                 *)
(*                                                                         *)
(* Text (file names, error messages) is a sequence of string tokens; an    *)
(* f-string is the concatenation of its parts, so "the message contains    *)
(* the name" is a statement about sub-sequences.                           *)
(*                                                                         *)
(* Two specifications share the variables:                                 *)
(*   SpecTransfer  one persist_upload / persist_url call, chunk by chunk   *)
(*   Spec          one conversion request, from persist_sources to the     *)
(*                 end of the streamed response                            *)
(***************************************************************************)
EXTENDS Integers, Sequences, FiniteSets, TLC

VARIABLES
    xfer,       \* the running persist_upload / persist_url call (SpecTransfer)
    pc,         \* position of the request handler / transport
    route,      \* the ConversionSpec of the route that was called
    filesLeft,  \* uploads of the request not yet persisted
    urlsLeft,   \* urls of the request not yet persisted
    stored,     \* persist_sources' list `stored`
    pending,    \* the list `stored` local to persist_uploads / persist_urls
    disk,       \* temp files that exist (paths)
    streams,    \* per batch member: state of its adapter stream
    archive,    \* member names registered in the ZipStream, in order
    resp,       \* the StreamingResponse and its iterator() generator
    zcur,       \* ZIP path: member whose stream the archive is reading
    emitted,    \* body chunks handed to the client
    err,        \* the error the request ended with
    malformed,  \* paths of the payloads whose adapter raises on first access
    failure,    \* where the request's exception was raised, and from what
    cleanups,   \* per StoredUpload (by path): calls of its cleanup() so far
    preview,    \* the preview request: its input and the handler's progress
    fn,         \* the call of a helper function: its arguments and its result
    tmpdir,     \* concurrent requests: the temp directory, name -> file
    reqs,       \* concurrent requests: per request, its position and files
    cache,      \* lru_cache of get_supabase_client: the cached client
    callers     \* concurrent insert_feedback / insert_session_metric calls

\* the variables outside the acquisition / conversion / preview handlers
auxVars == <<fn, tmpdir, reqs, cache, callers>>

vars == <<xfer, pc, route, filesLeft, urlsLeft, stored, pending, disk,
          streams, archive, resp, zcur, emitted, err, malformed, failure,
          cleanups, preview, auxVars>>

\* the variables of the request handlers
requestVars == <<pc, route, filesLeft, urlsLeft, stored, pending, disk,
                 streams, archive, resp, zcur, emitted, err, malformed, failure,
                 cleanups, preview, auxVars>>

\* the variables of the handlers
handlerVars == <<xfer, pc, route, filesLeft, urlsLeft, stored, pending, disk,
                 streams, archive, resp, zcur, emitted, err, malformed,
                 failure, cleanups, preview>>

-----------------------------------------------------------------------------
(* Bounds of the model *)

\* longest payload, in bytes, of the small transfer cases
MaxPayload == 4
\* largest max_bytes of the small transfer cases
MaxLimit == 2
\* largest chunk_size of the small transfer cases
MaxChunkSize == 2
\* largest batch a client submits (above MAX_FILES_PER_REQUEST)
MaxBatch == 6
\* most chunks one adapter yields
MaxChunks == 2
\* the route's default max_bytes (MAX_FILE_SIZE_BYTES, config.py:9) scaled down
ModelMaxBytes == 2
\* the route's default chunk_size (STREAM_CHUNK_SIZE, config.py:10) scaled down
ModelChunkSize == 1

\* most StoredUploads whose cleanup is called at will
MaxFiles == 4
\* most calls of cleanup() on one StoredUpload
MaxCleanups == 2
\* largest batch whose output names are derived
MaxNames == 2
\* most rows of the short preview inputs
MaxShort == 2
\* most rows of a preview input above the preview limit
MaxExtra == 1
\* most lines of a preview input that hold a literal backslash-n
MaxEscaped == 2
\* names the temp directory can hand out
MaxTempNames == 4
\* requests in flight at the same time
MaxRequests == 2
\* concurrent calls of the persistence sink
MaxCallers == 3
\* most sources of one of the concurrent requests
MaxSources == 2
\* most chunks written to one temp file of the concurrent requests
MaxWrites == 1
\* longest file read in chunks
MaxFileLen == 3
\* largest chunk size of the chunk iterator
MaxRead == 3
\* invocations of the chunk iterator on one file
MaxRuns == 2
\* most segments of a URL path, and most fragments of a header
MaxSegments == 2
\* most fields of a record that is flattened
MaxFields == 2
\* most records of an NDJSON file that is converted
MaxRecords == 3
\* most tokens of one line of an NDJSON file
MaxLineTokens == 4
\* most data rows of a table an adapter converts
MaxRows == 2
\* most units (header or row) an adapter reads from its temp file at once
MaxUnits == 2
\* chunks an adapter yields to _prefetch_stream
MaxAdapterChunks == 3

(* Program constants *)

MAX_FILES_PER_REQUEST == 5
\* the LIMIT of the preview queries
PreviewRows == 50
\* 1024 * 1024, the divisor of the "MB limit" messages
MiB == 1048576
ALLOWED_REMOTE_SCHEMES == {"http", "https"}

-----------------------------------------------------------------------------
(* Text *)

Min(a, b) == IF a < b THEN a ELSE b

\* sub occurs in text as a contiguous run of tokens
Contains(text, sub) ==
    \E i \in 0..(Len(text) - Len(sub)) :
        \A j \in 1..Len(sub) : text[i + j] = sub[j]

\* str.lower() on the schemes and the extensions of the model
Lower(s) ==
    CASE s = "HTTP" -> "http"
      [] s = "Https" -> "https"
      [] s = "FTP" -> "ftp"
      [] s = ".CSV" -> ".csv"
      [] s = ".Parquet" -> ".parquet"
      [] s = ".NDJSON" -> ".ndjson"
      [] s = ".JSONL" -> ".jsonl"
      [] OTHER -> s

NoError == [status |-> 0, code |-> "", message |-> <<>>]

HTTPException(status, code, message) ==
    [status |-> status, code |-> code, message |-> message]

\* upload.filename of the model: with an extension, absent, and "." whose
\* Path(...).name is empty
UploadNames == {<<"alpha", ".csv">>, <<>>, <<".">>}

\* str(exc) of the low-level failures of the model
ExcTexts == {<<"boom">>}

-----------------------------------------------------------------------------
(* persist_upload / persist_url: the bounded chunked transfer *)

\* a payload: its length in bytes and the number of reads that succeed
\* before a read raises (-1: no read ever raises)
NoFail == 0 - 1

IdleXfer ==
    [kind |-> "idle", name |-> <<>>, url |-> <<>>,
     max_bytes |-> 0, chunk_size |-> 0,
     left |-> 0, failIn |-> NoFail, total_bytes |-> 0, written |-> 0,
     tmp |-> FALSE, clients |-> 0, gets |-> 0,
     status |-> "idle", error |-> NoError]

TooLargeUpload(name, max_bytes) ==
    HTTPException(413, "file_too_large",
        <<"File '">> \o name \o
        <<"' exceeds the ", ToString(max_bytes \div MiB), " MB limit.">>)

TooLargeUrl(max_bytes) ==
    HTTPException(413, "file_too_large",
        <<"Remote file exceeds the ", ToString(max_bytes \div MiB), " MB limit.">>)

\* the exception a failing read leaves the call with: upload.read's own
\* exception for persist_upload; httpx.RequestError, translated by the
\* outer except clause, for persist_url
ReadErrorUntranslated(t) == HTTPException(500, "internal", <<"reset">>)
ReadError(t) ==
    IF t.kind = "url"
    THEN HTTPException(400, "download_error",
             <<"Could not fetch URL ">> \o t.url \o <<": ">> \o <<"reset">>)
    ELSE HTTPException(500, "internal", <<"reset">>)

\* the size check of the read loop: the running total against max_bytes
OverLimitOffByOne(total, max_bytes) == total >= max_bytes
OverLimit(total, max_bytes) == total > max_bytes

TooLarge(t) ==
    IF t.kind = "url" THEN TooLargeUrl(t.max_bytes)
    ELSE TooLargeUpload(t.name, t.max_bytes)

\* except Exception: tmp.close(); _delete_path(temp_path); raise
AbortKeepTemp(t, status, error) ==
    [t EXCEPT !.status = status, !.error = error]
AbortTransfer(t, status, error) ==
    [t EXCEPT !.status = status, !.error = error, !.tmp = FALSE]

\* one iteration of the read loop
ReadChunk(t) ==
    IF t.failIn = 0
    THEN AbortTransfer(t, "read_error", ReadError(t))
    ELSE LET n == IF t.chunk_size < 0 THEN t.left
                  ELSE Min(t.chunk_size, t.left)
             total == t.total_bytes + n
         IN  IF n = 0
             THEN [t EXCEPT !.status = "stored"]
             ELSE IF OverLimit(total, t.max_bytes)
                  THEN AbortTransfer([t EXCEPT !.total_bytes = total],
                                     "too_large", TooLarge(t))
                  ELSE [t EXCEPT !.total_bytes = total,
                                 !.written = t.written + n,
                                 !.left = t.left - n,
                                 !.failIn = IF t.failIn > 0 THEN t.failIn - 1
                                            ELSE t.failIn]

\* an upload: [name, len, failIn]; the part of persist_upload before the
\* read loop (original_name = upload.filename or "upload")
OpenUpload(upload, max_bytes, chunk_size) ==
    [kind |-> "upload",
     name |-> IF upload.name = <<>> THEN <<"upload">> ELSE upload.name,
     url |-> <<>>,
     max_bytes |-> max_bytes, chunk_size |-> chunk_size,
     left |-> upload.len, failIn |-> upload.failIn,
     total_bytes |-> 0, written |-> 0, tmp |-> TRUE,
     clients |-> 0, gets |-> 0,
     status |-> "reading", error |-> NoError]

\* _filename_from_url: Content-Disposition filename, else the last path
\* segment, else "download"
FilenameFromUrl(url) ==
    IF url.cd # <<>> THEN url.cd
    ELSE IF url.segment # <<>> THEN url.segment
    ELSE <<"download">>

\* the text of a url
UrlText(url) == <<url.scheme, "://host/">> \o url.segment

\* persist_url, line 128: the scheme check
SchemeAllowedCaseSensitive(scheme) == scheme \in ALLOWED_REMOTE_SCHEMES
SchemeAllowed(scheme) == Lower(scheme) \in ALLOWED_REMOTE_SCHEMES

\* str(exc) of the httpx.RequestError that client.stream raises
ConnectText(conn) ==
    IF conn = "timeout" THEN <<"timed out">> ELSE <<"unreachable">>

\* a url: [scheme, segment, cd, conn, code, len, failIn]; the part of
\* persist_url before the read loop. clients counts the AsyncClient objects
\* created and gets the GET requests issued.
OpenUrl(url, max_bytes, chunk_size) ==
    LET base == [kind |-> "url", name |-> <<>>, url |-> UrlText(url),
                 max_bytes |-> max_bytes, chunk_size |-> chunk_size,
                 left |-> url.len, failIn |-> url.failIn,
                 total_bytes |-> 0, written |-> 0, tmp |-> FALSE,
                 clients |-> 0, gets |-> 0,
                 status |-> "reading", error |-> NoError]
        sent == [base EXCEPT !.clients = 1, !.gets = 1]
    IN  IF ~SchemeAllowed(url.scheme)
        THEN [base EXCEPT !.status = "bad_scheme",
                 !.error = HTTPException(400, "invalid_url_scheme",
                               <<"Only HTTP(S) URLs are allowed.">>)]
        ELSE IF url.conn # "ok"
        THEN [sent EXCEPT !.status = "connect_error",
                 !.error = HTTPException(400, "download_error",
                               <<"Could not fetch URL ">> \o UrlText(url)
                               \o <<": ">> \o ConnectText(url.conn))]
        ELSE IF url.code \notin 200..299
        THEN [sent EXCEPT !.status = "bad_status",
                 !.error = HTTPException(url.code, "download_failed",
                               <<"Failed to download URL ">> \o UrlText(url)
                               \o <<": ">> \o <<"reason">>)]
        ELSE [sent EXCEPT !.name = FilenameFromUrl(url), !.tmp = TRUE]

RECURSIVE RunTransfer(_)
RunTransfer(t) == IF t.status # "reading" THEN t ELSE RunTransfer(ReadChunk(t))

\* persist_upload and persist_url, run to their end
PersistUpload(upload, max_bytes, chunk_size) ==
    RunTransfer(OpenUpload(upload, max_bytes, chunk_size))
PersistUrl(url, max_bytes, chunk_size) ==
    RunTransfer(OpenUrl(url, max_bytes, chunk_size))

-----------------------------------------------------------------------------
(* SpecTransfer: one acquisition call at a time, one read per step *)

\* the small cases, and cases around one and two MiB read in MiB chunks
Limits == [max_bytes : 0..MaxLimit, chunk_size : 1..MaxChunkSize]
            \cup [max_bytes : {MiB, 2 * MiB}, chunk_size : {MiB}]

Lengths(lim) ==
    IF lim.chunk_size = MiB
    THEN {lim.max_bytes, lim.max_bytes + 1, lim.max_bytes + MiB}
    ELSE 0..MaxPayload

\* reads that succeed before one raises
FailPoints == {NoFail, 0, 1, 2}

Uploads(lens) == [name : UploadNames, len : lens, failIn : FailPoints]

Urls(lens) ==
    [scheme : {"http", "Https", "HTTP", "ftp", "FTP", "file", ""},
     segment : {<<>>, <<"alpha", ".csv">>},
     cd : {<<>>, <<"beta">>},
     conn : {"ok", "error", "timeout"},
     code : {200, 204, 304, 404},
     len : lens, failIn : FailPoints]

CallPersistUpload ==
    /\ xfer.status = "idle"
    /\ \E lim \in Limits : \E upload \in Uploads(Lengths(lim)) :
           xfer' = OpenUpload(upload, lim.max_bytes, lim.chunk_size)
    /\ UNCHANGED requestVars

CallPersistUrl ==
    /\ xfer.status = "idle"
    /\ \E lim \in Limits : \E url \in Urls(Lengths(lim)) :
           xfer' = OpenUrl(url, lim.max_bytes, lim.chunk_size)
    /\ UNCHANGED requestVars

TransferChunk ==
    /\ xfer.status = "reading"
    /\ xfer' = ReadChunk(xfer)
    /\ UNCHANGED requestVars

TransferReturn ==
    /\ xfer.status \notin {"idle", "reading"}
    /\ xfer' = IdleXfer
    /\ UNCHANGED requestVars

TransferNext ==
    \/ CallPersistUpload
    \/ CallPersistUrl
    \/ TransferChunk
    \/ TransferReturn

-----------------------------------------------------------------------------
(* The conversion request: routes/convert.py *)

\* the routes' ConversionSpec (media_type, output_suffix); parquet-to-csv
\* and ndjson-to-csv have the same one
Routes ==
    {[media_type |-> "text/csv", output_suffix |-> ".csv"],
     [media_type |-> "application/octet-stream", output_suffix |-> ".parquet"],
     [media_type |-> "application/x-ndjson", output_suffix |-> ".ndjson"]}

\* the tokens that are a directory with its separator
Directories == {"dir/"}

\* Path(filename).name: the final component, for a filename that does not
\* end in a separator; "." has no final component
PathName(filename) ==
    IF filename = <<".">> THEN <<>>
    ELSE LET dirs == {i \in DOMAIN filename : filename[i] \in Directories}
             last == IF dirs = {} THEN 0
                     ELSE CHOOSE i \in dirs : \A j \in dirs : j <= i
         IN  SubSeq(filename, last + 1, Len(filename))

\* the tokens that are a file extension
Extensions ==
    {".csv", ".parquet", ".ndjson", ".jsonl", ".txt", ".tar", ".gz",
     ".CSV", ".Parquet", ".NDJSON", ".JSONL"}

\* a name with every trailing extension removed
RECURSIVE Stem(_)
Stem(name) ==
    IF Len(name) > 1 /\ name[Len(name)] \in Extensions
    THEN Stem(SubSeq(name, 1, Len(name) - 1))
    ELSE name

WithSuffixAllStripped(filename, suffix) == Stem(PathName(filename)) \o <<suffix>>

\* Path(filename).with_suffix(suffix).name, for a filename with a name
WithSuffix(filename, suffix) ==
    LET name == PathName(filename)
    IN  IF Len(name) > 1 /\ name[Len(name)] \in Extensions
        THEN SubSeq(name, 1, Len(name) - 1) \o <<suffix>>
        ELSE name \o <<suffix>>

\* Path(filename).suffix
Suffix(filename) ==
    LET name == PathName(filename)
    IN  IF Len(name) > 1 /\ name[Len(name)] \in Extensions
        THEN name[Len(name)] ELSE ""

\* with_suffix raises ValueError on an empty name
NameError(filename) == PathName(filename) = <<>>

ValueError == HTTPException(500, "internal", <<"has an empty name">>)

\* Path.unlink(missing_ok=...) on the files d: the files left, and whether
\* FileNotFoundError was raised
Unlink(d, path, missing_ok) ==
    IF path \in d
    THEN [disk |-> d \ {path}, raised |-> FALSE]
    ELSE [disk |-> d, raised |-> ~missing_ok]

\* StoredUpload.cleanup: self.path.unlink(missing_ok=True). The except
\* TypeError branch is for interpreters without missing_ok, on which the
\* application does not start.
CleanupStrict(d, s) == Unlink(d, s.path, FALSE)
Cleanup(d, s) == Unlink(d, s.path, TRUE)

\* cleanup_uploads: stored.cleanup() for each StoredUpload, in order; an
\* exception of a cleanup ends the loop
RECURSIVE CleanupUploads(_, _)
CleanupUploads(d, uploads) ==
    IF uploads = <<>> THEN d
    ELSE LET r == Cleanup(d, Head(uploads))
         IN  IF r.raised THEN r.disk
             ELSE CleanupUploads(r.disk, Tail(uploads))

\* the calls of cleanup() that cleanup_uploads(uploads) makes, added to c
CleanupCalls(c, uploads) ==
    [p \in DOMAIN c |->
        c[p] + Cardinality({i \in DOMAIN uploads : uploads[i].path = p})]

\* _conversion_error(filename, exc)
ConversionErrorNoName(filename, text) ==
    HTTPException(400, "conversion_failed", <<"Failed to convert: ">> \o text)
ConversionError(filename, text) ==
    HTTPException(400, "conversion_failed",
        <<"Failed to convert ">> \o filename \o <<": ">> \o text)

\* the HTTPException _collect_ndjson_rows raises on an invalid line
InvalidNdjson ==
    HTTPException(400, "invalid_ndjson",
        <<"Line ", "1", " is not valid JSON: ", "Expecting value">>)

\* what the adapter does when called and when first pulled: it raises on
\* a malformed payload, and else yields a first chunk or ends at once
PrefetchOutcomes(s) ==
    IF s.path \in malformed
    THEN {"call_exc", "call_http", "first_exc", "first_http"}
    ELSE {"empty", "chunk"}

PrefetchFailsOnEmpty(outcome) == outcome # "chunk"
PrefetchFails(outcome) == outcome \notin {"empty", "chunk"}

\* the exception _prefetch_stream leaves with: an HTTPException as it is,
\* any other exception wrapped by _conversion_error
PrefetchError(s, outcome, text) ==
    IF outcome \in {"call_http", "first_http"}
    THEN InvalidNdjson
    ELSE ConversionError(s.filename, text)

\* the stream _prefetch_stream returns: iter(()) for an adapter that ends
\* at once, else generator() holding first_chunk
PrefetchStream(outcome) ==
    IF outcome = "empty"
    THEN [state |-> "done", pulled |-> 0, first |-> FALSE]
    ELSE [state |-> "open", pulled |-> 1, first |-> TRUE]

NoFailure == [stage |-> "", member |-> 0, http |-> FALSE, text |-> <<>>]

\* an exception raised outside the adapters
RaisedIn(stage) == [NoFailure EXCEPT !.stage = stage]

\* an exception the adapter of member i raised: an HTTPException of its
\* own, or a low-level exception with str(exc) = text
RaisedBy(stage, i, outcome, text) ==
    [stage |-> stage, member |-> i,
     http |-> outcome \in {"call_http", "first_http", "http"},
     text |-> IF outcome \in {"call_http", "first_http", "http"}
              THEN InvalidNdjson.message ELSE text]

NoResponse ==
    [state |-> "none", status |-> 0, media_type |-> "", filename |-> <<>>]

\* closing (or collecting) a stream closes the adapter generator under it
CloseStream(st) ==
    IF st.state = "open" THEN [st EXCEPT !.state = "closed", !.first = FALSE]
    ELSE st

BatchSizes ==
    {c \in [files : 0..MaxBatch, urls : 0..MaxBatch] : c.files + c.urls <= MaxBatch}

\* payloads of the request's sources: at the scaled default limit and one
\* byte above it; their reads never raise, or the second one does
RequestLengths == {ModelMaxBytes, ModelMaxBytes + 1}
RequestFailPoints == {NoFail, 1}

\* the uploads of a request: a name with an extension, or "."
RequestUploads ==
    [name : {<<"alpha", ".csv">>, <<".">>}, len : RequestLengths,
     failIn : RequestFailPoints, malformed : BOOLEAN]

\* the urls of a request: named by their path, or "." by Content-Disposition
RequestUrls ==
    [scheme : {"Https", "ftp"},
     segment : {<<"beta", ".csv">>},
     cd : {<<>>, <<".">>},
     conn : {"ok", "error"},
     code : {200, 404},
     len : RequestLengths, failIn : RequestFailPoints, malformed : BOOLEAN]

\* no preview request: the form fields `file` and `url` (given: "none",
\* "blank" or "url"), and what the handler did: the suffix it dispatched
\* on, the extractor it invoked and how that ended, and the acquisition
\* call it made
NoPreview ==
    [state |-> "none", hasFile |-> FALSE, file |-> <<>>,
     given |-> "none", url |-> <<>>,
     suffix |-> "", extractor |-> "", outcome |-> "", call |-> IdleXfer]

\* no helper function was called
NoCall == [op |-> "", state |-> "idle", args |-> <<>>, result |-> <<>>]

\* the names NamedTemporaryFile can give a file, and the requests in flight
TempNames == 1..MaxTempNames
Requests == 1..MaxRequests

\* a name of the temp directory under which no file exists
NoFile ==
    [exists |-> FALSE, owner |-> 0, open |-> FALSE, size |-> 0,
     sealed |-> FALSE, late |-> FALSE]

\* a request that has not started
NoRequest ==
    [pc |-> "idle", left |-> 0, writing |-> 0, stored |-> <<>>, scratch |-> 0]

\* the callers of the persistence sink
Callers == 1..MaxCallers

\* lru_cache holds no result
NoClient == [client |-> 0, constructed |-> 0, failed |-> 0]

\* a caller that has not called
NoInsert ==
    [pc |-> "idle", op |-> "", client |-> 0, error |-> NoError,
     attempted |-> FALSE]

Init ==
    /\ xfer = IdleXfer
    /\ pc = "request"
    /\ route \in Routes
    /\ \E c \in BatchSizes : filesLeft = c.files /\ urlsLeft = c.urls
    /\ stored = <<>>
    /\ pending = <<>>
    /\ disk = {}
    /\ streams = <<>>
    /\ archive = <<>>
    /\ resp = NoResponse
    /\ zcur = 0
    /\ emitted = 0
    /\ err = NoError
    /\ malformed = {}
    /\ failure = NoFailure
    /\ cleanups = <<>>
    /\ preview = NoPreview
    /\ fn = NoCall
    /\ tmpdir = [name \in TempNames |-> NoFile]
    /\ reqs = [r \in Requests |-> NoRequest]
    /\ cache = NoClient
    /\ callers = [c \in Callers |-> NoInsert]

\* the request ends with an exception
Fail(error, d, from) ==
    /\ pc' = "failed"
    /\ err' = error
    /\ disk' = d
    /\ failure' = from

\* the count check: more sources than MAX_FILES_PER_REQUEST
TooManyOffByOne(total_count) == total_count >= MAX_FILES_PER_REQUEST
TooMany(total_count) == total_count > MAX_FILES_PER_REQUEST

\* persist_sources, lines 196-209: the count check
CountCheck ==
    /\ pc = "request"
    /\ LET total_count == filesLeft + urlsLeft
       IN  IF total_count = 0
           THEN Fail(HTTPException(400, "missing_files",
                    <<"At least one file or URL must be provided.">>),
                    disk, RaisedIn("count"))
           ELSE IF TooMany(total_count)
           THEN Fail(HTTPException(400, "too_many_files",
                    <<"A maximum of ", ToString(MAX_FILES_PER_REQUEST),
                      " items are allowed per request.">>),
                    disk, RaisedIn("count"))
           ELSE /\ pc' = "uploads"
                /\ UNCHANGED <<disk, err, failure>>
    /\ UNCHANGED <<auxVars, xfer, preview, route, filesLeft, urlsLeft, stored, pending,
                   streams, archive, resp, zcur, emitted, malformed, cleanups>>

\* the temp file of the next acquisition (NamedTemporaryFile: a fresh name)
NextPath == Len(stored) + Len(pending) + 1

\* the except clauses of persist_uploads / persist_urls (the inner list)
\* and of persist_sources (its own list)
AcquireCleanupInnerOnly(d) == CleanupUploads(d, pending)
AcquireCleanup(d) == CleanupUploads(CleanupUploads(d, pending), stored)

\* one iteration of the loop of persist_uploads / persist_urls around the
\* finished call t of a source whose payload is, or is not, malformed;
\* origin records which list the source came from and its position there
Acquired(t, bad) ==
    LET created == IF t.tmp THEN disk \cup {NextPath} ELSE disk
    IN  IF t.status = "stored"
        THEN /\ pending' = Append(pending,
                            [path |-> NextPath, filename |-> t.name,
                             origin |-> [kind |-> t.kind,
                                         index |-> Len(pending) + 1]])
             /\ disk' = created
             /\ malformed' = IF bad THEN malformed \cup {NextPath} ELSE malformed
             /\ cleanups' = Append(cleanups, 0)
             /\ UNCHANGED <<pc, err, failure>>
        ELSE /\ Fail(t.error, AcquireCleanup(created), RaisedIn("acquire"))
             /\ cleanups' = CleanupCalls(CleanupCalls(cleanups, pending), stored)
             /\ UNCHANGED <<pending, malformed>>

PersistNextUpload ==
    /\ pc = "uploads"
    /\ filesLeft > 0
    /\ filesLeft' = filesLeft - 1
    /\ \E upload \in RequestUploads :
          Acquired(PersistUpload(upload, ModelMaxBytes, ModelChunkSize),
                   upload.malformed)
    /\ UNCHANGED <<auxVars, xfer, preview, route, urlsLeft, stored, streams, archive, resp,
                   zcur, emitted>>

\* list.extend
ExtendFront(list, more) == more \o list
Extend(list, more) == list \o more

\* persist_sources, lines 213-215: stored.extend(await persist_uploads(files))
UploadsDone ==
    /\ pc = "uploads"
    /\ filesLeft = 0
    /\ stored' = Extend(stored, pending)
    /\ pending' = <<>>
    /\ pc' = "urls"
    /\ UNCHANGED <<auxVars, xfer, preview, route, filesLeft, urlsLeft, disk, streams, archive,
                   resp, zcur, emitted, err, malformed, failure, cleanups>>

PersistNextUrl ==
    /\ pc = "urls"
    /\ urlsLeft > 0
    /\ urlsLeft' = urlsLeft - 1
    /\ \E url \in RequestUrls :
          Acquired(PersistUrl(url, ModelMaxBytes, ModelChunkSize),
                   url.malformed)
    /\ UNCHANGED <<auxVars, xfer, preview, route, filesLeft, stored, streams, archive, resp,
                   zcur, emitted>>

\* _convert_payload, line 119: the batch goes to the single-file builder
SingleSourceOrPair(uploads) == Len(uploads) <= 2
SingleSource(uploads) == Len(uploads) = 1

\* persist_sources, lines 216-220, and _convert_payload, lines 118-121
UrlsDone ==
    /\ pc = "urls"
    /\ urlsLeft = 0
    /\ stored' = Extend(stored, pending)
    /\ pending' = <<>>
    /\ pc' = IF SingleSource(stored') THEN "single" ELSE "zip"
    /\ UNCHANGED <<auxVars, xfer, preview, route, filesLeft, urlsLeft, disk, streams, archive,
                   resp, zcur, emitted, err, malformed, failure, cleanups>>

\* _build_single_file_response, lines 73-75: the except clause of the prefetch
SinglePrefetchNoCleanup(d) == d
SinglePrefetchCleanup(d) == CleanupUploads(d, <<stored[1]>>)

\* _build_single_file_response, lines 67-84
BuildSingle ==
    /\ pc = "single"
    /\ LET s == stored[1]
       IN  IF NameError(s.filename)
           THEN /\ Fail(ValueError, disk, RaisedIn("name"))
                /\ UNCHANGED <<streams, resp, cleanups>>
           ELSE \E outcome \in PrefetchOutcomes(s) : \E text \in ExcTexts :
                   IF PrefetchFails(outcome)
                   THEN /\ Fail(PrefetchError(s, outcome, text),
                                SinglePrefetchCleanup(disk),
                                RaisedBy("prefetch", 1, outcome, text))
                        /\ cleanups' = CleanupCalls(cleanups, <<s>>)
                        /\ UNCHANGED <<streams, resp>>
                   ELSE /\ streams' = <<PrefetchStream(outcome)>>
                        /\ resp' = [state |-> "unstarted", status |-> 200,
                                    media_type |-> route.media_type,
                                    filename |-> WithSuffix(s.filename,
                                                    route.output_suffix)]
                        /\ pc' = "respond"
                        /\ UNCHANGED <<disk, err, failure, cleanups>>
    /\ UNCHANGED <<auxVars, xfer, preview, route, filesLeft, urlsLeft, stored, pending, archive,
                   zcur, emitted, malformed>>

\* _build_zip_response, lines 95-97: the except clause of the prefetch loop
ZipPrefetchCleanupPrepared(d) ==
    CleanupUploads(d, SubSeq(stored, 1, Len(streams)))
ZipPrefetchCleanup(d) == CleanupUploads(d, stored)

\* _build_zip_response, lines 93-94: the prefetch loop has run to its end
OnePrefetched == Len(streams) >= 1
AllPrefetched == Len(streams) = Len(stored)

\* _build_zip_response, lines 92-97: one iteration of the prefetch loop
ZipPrefetch ==
    /\ pc = "zip"
    /\ Len(streams) < Len(stored)
    /\ LET i == Len(streams) + 1
           s == stored[i]
       IN  \E outcome \in PrefetchOutcomes(s) : \E text \in ExcTexts :
              IF PrefetchFails(outcome)
              THEN /\ Fail(PrefetchError(s, outcome, text),
                           ZipPrefetchCleanup(disk),
                           RaisedBy("prefetch", i, outcome, text))
                   /\ cleanups' = CleanupCalls(cleanups, stored)
                   /\ UNCHANGED streams
              ELSE /\ streams' = Append(streams, PrefetchStream(outcome))
                   /\ UNCHANGED <<pc, disk, err, failure, cleanups>>
    /\ UNCHANGED <<auxVars, xfer, preview, route, filesLeft, urlsLeft, stored, pending, archive,
                   resp, zcur, emitted, malformed>>

\* the members registered before with_suffix raises, all of them if none does
RECURSIVE Registered(_, _)
Registered(uploads, suffix) ==
    IF uploads = <<>> \/ NameError(Head(uploads).filename) THEN <<>>
    ELSE <<WithSuffix(Head(uploads).filename, suffix)>>
             \o Registered(Tail(uploads), suffix)

\* _build_zip_response, lines 99-110: register the members, build the response
ZipRegister ==
    /\ pc = "zip"
    /\ AllPrefetched
    /\ archive' = Registered(stored, route.output_suffix)
    /\ IF Len(archive') < Len(stored)
       THEN /\ Fail(ValueError, disk, RaisedIn("name"))
            /\ UNCHANGED <<resp, zcur>>
       ELSE /\ resp' = [state |-> "unstarted", status |-> 200,
                        media_type |-> "application/zip",
                        filename |-> <<"converted_files", ".zip">>]
            /\ zcur' = 1
            /\ pc' = "respond"
            /\ UNCHANGED <<disk, err, failure>>
    /\ UNCHANGED <<auxVars, xfer, preview, route, filesLeft, urlsLeft, stored, pending,
                   streams, emitted, malformed, cleanups>>

\* what a later pull of the adapter does
PullOutcomes == {"chunk", "stop", "exc", "http"}

\* iterator()'s finally clause: cleanup_uploads of the batch
FinallySkipped(d) == d
Finally(d) == CleanupUploads(d, stored)

\* the response generator ends: normally, or with the exception of a stream
EndResponse(state, error, from) ==
    /\ resp' = [resp EXCEPT !.state = state]
    /\ pc' = state
    /\ err' = error
    /\ disk' = Finally(disk)
    /\ cleanups' = CleanupCalls(cleanups, stored)
    /\ failure' = from

\* iterator() suspended at `yield from`: its finally clause has not run,
\* the temp files are as they were
AtYieldCleanup(d) == CleanupUploads(d, stored)
AtYield(d) == d

\* the response generator yields one chunk to the transport
Yield ==
    /\ resp' = [resp EXCEPT !.state = "suspended"]
    /\ emitted' = emitted + 1
    /\ disk' = AtYield(disk)
    /\ UNCHANGED <<pc, err, failure, cleanups>>

\* the adapter of member i raises at a later pull: generator() re-raises
\* (lines 59-62), `yield from` passes the exception on and iterator() ends
\* in its finally clause
StreamFailureSkipsMember(i, outcome, text) ==
    /\ streams' = [streams EXCEPT ![i].state = "failed"]
    /\ zcur' = zcur + 1
    /\ Yield
StreamFailure(i, outcome, text) ==
    /\ streams' = [streams EXCEPT ![i].state = "failed"]
    /\ EndResponse("truncated",
          IF outcome = "http" THEN InvalidNdjson
          ELSE ConversionError(stored[i].filename, text),
          RaisedBy("stream", i, outcome, text))
    /\ UNCHANGED <<zcur, emitted>>

\* next() on the stream of member i, inside the response generator; `ended`
\* is what the response generator does when that stream is exhausted
PullStream(i, ended) ==
    LET st == streams[i]
    IN  IF st.state = "done"
        THEN /\ ended
             /\ UNCHANGED streams
        ELSE IF st.first
        THEN /\ streams' = [streams EXCEPT ![i].first = FALSE]
             /\ Yield
             /\ UNCHANGED zcur
        ELSE \E outcome \in PullOutcomes : \E text \in ExcTexts :
                CASE outcome = "chunk" ->
                        /\ st.pulled < MaxChunks
                        /\ streams' = [streams EXCEPT ![i].pulled = st.pulled + 1]
                        /\ Yield
                        /\ UNCHANGED zcur
                  [] outcome = "stop" ->
                        /\ streams' = [streams EXCEPT ![i].state = "done"]
                        /\ ended
                  [] OTHER -> StreamFailure(i, outcome, text)

\* the transport pulls the next chunk of a single-file response:
\* iterator(), lines 77-81, over generator(), lines 55-62
PullSingle ==
    /\ pc = "respond"
    /\ Len(stored) = 1
    /\ PullStream(1, /\ EndResponse("complete", NoError, NoFailure)
                     /\ UNCHANGED <<zcur, emitted>>)
    /\ UNCHANGED <<auxVars, xfer, preview, route, filesLeft, urlsLeft, stored, pending, archive,
                   malformed>>

\* the transport pulls the next chunk of a ZIP response: iterator(), lines
\* 103-107, over the archive, which reads its members in the order they
\* were added, closes each member with a chunk of its own and ends with
\* the central directory
PullZip ==
    /\ pc = "respond"
    /\ Len(stored) # 1
    /\ IF zcur <= Len(stored)
       THEN PullStream(zcur, /\ zcur' = zcur + 1
                             /\ Yield)
       ELSE IF zcur = Len(stored) + 1
       THEN /\ zcur' = zcur + 1
            /\ Yield
            /\ UNCHANGED streams
       ELSE /\ EndResponse("complete", NoError, NoFailure)
            /\ UNCHANGED <<streams, zcur, emitted>>
    /\ UNCHANGED <<auxVars, xfer, preview, route, filesLeft, urlsLeft, stored, pending, archive,
                   malformed>>

\* the client disconnects: the transport drops the response generator,
\* which is closed. A generator that was never started runs none of its
\* body, so its finally clause does not run; one suspended at a yield gets
\* GeneratorExit there and runs it.
ClientDisconnect ==
    /\ pc = "respond"
    /\ resp' = [resp EXCEPT !.state = "aborted"]
    /\ pc' = "aborted"
    /\ disk' = IF resp.state = "suspended" THEN Finally(disk) ELSE disk
    /\ cleanups' = IF resp.state = "suspended"
                   THEN CleanupCalls(cleanups, stored) ELSE cleanups
    /\ streams' = [i \in DOMAIN streams |-> CloseStream(streams[i])]
    /\ UNCHANGED <<auxVars, xfer, preview, route, filesLeft, urlsLeft, stored, pending, archive,
                   zcur, emitted, err, malformed, failure>>

Next ==
    \/ CountCheck
    \/ PersistNextUpload
    \/ UploadsDone
    \/ PersistNextUrl
    \/ UrlsDone
    \/ BuildSingle
    \/ ZipPrefetch
    \/ ZipRegister
    \/ PullSingle
    \/ PullZip
    \/ ClientDisconnect

Spec == Init /\ [][Next]_vars

TransferInit ==
    /\ Init
    /\ route = [media_type |-> "text/csv", output_suffix |-> ".csv"]
    /\ filesLeft = 0
    /\ urlsLeft = 0

SpecTransfer == TransferInit /\ [][TransferNext]_vars

-----------------------------------------------------------------------------
(* SpecCleanup: StoredUpload.cleanup and cleanup_uploads called at will *)

FileNotFoundError == HTTPException(500, "internal", <<"No such file">>)

\* some StoredUploads, each with its temp file or with the file gone already
CleanupInit ==
    /\ Init
    /\ route = [media_type |-> "text/csv", output_suffix |-> ".csv"]
    /\ filesLeft = 0
    /\ urlsLeft = 0

CleanupSetup ==
    /\ pc = "request"
    /\ \E n \in 1..MaxFiles : \E d \in SUBSET (1..n) :
          /\ stored' = [i \in 1..n |->
                           [path |-> i, filename |-> <<"alpha", ".csv">>,
                            origin |-> [kind |-> "upload", index |-> i]]]
          /\ disk' = d
          /\ cleanups' = [i \in 1..n |-> 0]
    /\ pc' = "cleanup"
    /\ UNCHANGED <<auxVars, xfer, preview, route, filesLeft, urlsLeft, pending, streams,
                   archive, resp, zcur, emitted, err, malformed, failure>>

\* stored.cleanup() on one StoredUpload
CallCleanup ==
    /\ pc = "cleanup"
    /\ \E i \in DOMAIN stored :
          /\ cleanups[i] < MaxCleanups
          /\ LET r == Cleanup(disk, stored[i])
             IN  /\ disk' = r.disk
                 /\ err' = IF r.raised THEN FileNotFoundError ELSE err
                 /\ pc' = IF r.raised THEN "failed" ELSE pc
          /\ cleanups' = [cleanups EXCEPT ![i] = @ + 1]
    /\ UNCHANGED <<auxVars, xfer, preview, route, filesLeft, urlsLeft, stored, pending,
                   streams, archive, resp, zcur, emitted, malformed, failure>>

\* cleanup_uploads(stored) on all of them
CallCleanupUploads ==
    /\ pc = "cleanup"
    /\ \A i \in DOMAIN stored : cleanups[i] < MaxCleanups
    /\ disk' = CleanupUploads(disk, stored)
    /\ cleanups' = CleanupCalls(cleanups, stored)
    /\ LET raised == \E i \in DOMAIN stored :
                         Cleanup(disk \ {stored[j].path : j \in 1..(i - 1)},
                                 stored[i]).raised
       IN  /\ err' = IF raised THEN FileNotFoundError ELSE err
           /\ pc' = IF raised THEN "failed" ELSE pc
    /\ UNCHANGED <<auxVars, xfer, preview, route, filesLeft, urlsLeft, stored, pending,
                   streams, archive, resp, zcur, emitted, malformed, failure>>

CleanupNext ==
    \/ CleanupSetup
    \/ CallCleanup
    \/ CallCleanupUploads

SpecCleanup == CleanupInit /\ [][CleanupNext]_vars

-----------------------------------------------------------------------------
(* SpecNames: the output names of a batch of declared names *)

\* declared names: with one extension, with none, with two, a hidden file,
\* ".", and names with a directory
DeclaredNames ==
    {<<"alpha", ".csv">>, <<"alpha">>, <<"alpha", ".tar", ".gz">>,
     <<"alpha", ".parquet">>, <<".csv">>, <<".">>,
     <<"dir/", "alpha", ".csv">>, <<"dir/", "beta">>}

NamesInit ==
    /\ Init
    /\ filesLeft = 0
    /\ urlsLeft = 0

\* persist_sources has returned a batch with these declared names
NamesSetup ==
    /\ pc = "request"
    /\ \E n \in 1..MaxNames : \E names \in [1..n -> DeclaredNames] :
          /\ stored' = [i \in 1..n |->
                           [path |-> i, filename |-> names[i],
                            origin |-> [kind |-> "upload", index |-> i]]]
          /\ disk' = 1..n
          /\ cleanups' = [i \in 1..n |-> 0]
    /\ pc' = "derive"
    /\ UNCHANGED <<auxVars, xfer, preview, route, filesLeft, urlsLeft, pending, streams,
                   archive, resp, zcur, emitted, err, malformed, failure>>

\* _build_single_file_response, line 69
DeriveSingle ==
    /\ pc = "derive"
    /\ SingleSource(stored)
    /\ IF NameError(stored[1].filename)
       THEN /\ Fail(ValueError, disk, RaisedIn("name"))
            /\ UNCHANGED resp
       ELSE /\ resp' = [NoResponse EXCEPT
                           !.filename = WithSuffix(stored[1].filename,
                                                   route.output_suffix)]
            /\ pc' = "derived"
            /\ UNCHANGED <<disk, err, failure>>
    /\ UNCHANGED <<auxVars, xfer, preview, route, filesLeft, urlsLeft, stored, pending,
                   streams, archive, zcur, emitted, malformed, cleanups>>

\* _build_zip_response, lines 99-101
RegisterMembers ==
    /\ pc = "derive"
    /\ ~SingleSource(stored)
    /\ archive' = Registered(stored, route.output_suffix)
    /\ IF Len(archive') < Len(stored)
       THEN Fail(ValueError, disk, RaisedIn("name"))
       ELSE /\ pc' = "derived"
            /\ UNCHANGED <<disk, err, failure>>
    /\ UNCHANGED <<auxVars, xfer, preview, route, filesLeft, urlsLeft, stored, pending,
                   streams, resp, zcur, emitted, malformed, cleanups>>

NamesNext ==
    \/ NamesSetup
    \/ DeriveSingle
    \/ RegisterMembers

SpecNames == NamesInit /\ [][NamesNext]_vars

-----------------------------------------------------------------------------
(* SpecPreview: one preview request, routes/preview.py *)

\* upload.filename of the previews: each extension in lower and in other
\* case, an extension that is not previewable, none, a hidden file, absent
PreviewNames ==
    {<<"data", ".csv">>, <<"data", ".CSV">>, <<"data", ".parquet">>,
     <<"data", ".Parquet">>, <<"data", ".ndjson">>, <<"data", ".JSONL">>,
     <<"data", ".txt">>, <<"data">>, <<".csv">>, <<>>}

PreviewUploads ==
    [name : PreviewNames, len : RequestLengths, failIn : {NoFail}]

PreviewUrls ==
    [scheme : {"https", "ftp"},
     segment : {<<"data", ".jsonl">>, <<>>},
     cd : {<<>>, <<"data", ".Parquet">>},
     conn : {"ok", "timeout"},
     code : {200, 404},
     len : RequestLengths, failIn : RequestFailPoints]

PreviewInit ==
    /\ Init
    /\ route = [media_type |-> "text/csv", output_suffix |-> ".csv"]
    /\ filesLeft = 0
    /\ urlsLeft = 0

\* a client posts /preview with a file, a url, both or neither
PreviewRequest ==
    /\ pc = "request"
    /\ preview.state = "none"
    /\ \E hasFile \in BOOLEAN, given \in {"none", "blank", "url"} :
       \E file \in IF hasFile THEN PreviewUploads ELSE {<<>>} :
       \E url \in IF given = "url" THEN PreviewUrls ELSE {<<>>} :
          preview' = [NoPreview EXCEPT !.state = "received",
                         !.hasFile = hasFile, !.file = file,
                         !.given = given, !.url = url]
    /\ UNCHANGED <<auxVars, xfer, pc, route, filesLeft, urlsLeft, stored, pending, disk,
                   streams, archive, resp, zcur, emitted, err, malformed,
                   failure, cleanups>>

\* get_preview, line 20: file is None and (url is None or not url.strip())
MissingInput(p) == ~p.hasFile /\ p.given # "url"

\* get_preview, line 26: persist_upload(file) if file is not None
AcquireFileUnlessUrl(p) == p.hasFile /\ p.given # "url"
AcquireFile(p) == p.hasFile

\* get_preview, lines 20-26: the input check and the acquisition
PreviewAcquire ==
    /\ preview.state = "received"
    /\ IF MissingInput(preview)
       THEN /\ Fail(HTTPException(400, "missing_file",
                      <<"Provide a file upload or a URL for preview.">>),
                    disk, RaisedIn("input"))
            /\ preview' = [preview EXCEPT !.state = "rejected"]
            /\ UNCHANGED <<stored, cleanups>>
       ELSE LET t == IF AcquireFile(preview)
                     THEN PersistUpload(preview.file, ModelMaxBytes,
                                        ModelChunkSize)
                     ELSE PersistUrl(preview.url, ModelMaxBytes,
                                     ModelChunkSize)
                created == IF t.tmp THEN disk \cup {NextPath} ELSE disk
            IN  IF t.status = "stored"
                THEN /\ stored' = <<[path |-> NextPath, filename |-> t.name,
                                     origin |-> [kind |-> t.kind,
                                                 index |-> 1]]>>
                     /\ disk' = created
                     /\ cleanups' = <<0>>
                     /\ preview' = [preview EXCEPT !.state = "acquired",
                                                    !.call = t]
                     /\ UNCHANGED <<pc, err, failure>>
                ELSE /\ Fail(t.error, created, RaisedIn("acquire"))
                     /\ preview' = [preview EXCEPT !.state = "not_acquired",
                                                    !.call = t]
                     /\ UNCHANGED <<stored, cleanups>>
    /\ UNCHANGED <<auxVars, xfer, route, filesLeft, urlsLeft, pending, streams, archive,
                   resp, zcur, emitted, malformed>>

\* get_preview, line 27: the suffix the handler dispatches on
PreviewSuffixCaseSensitive(filename) == Suffix(filename)
PreviewSuffix(filename) == Lower(Suffix(filename))

\* get_preview, lines 30-35: the extractor of a suffix, "" if it has none
Extractor(suffix) ==
    CASE suffix = ".parquet" -> "get_parquet_schema_and_preview"
      [] suffix = ".csv" -> "get_csv_schema_and_preview"
      [] suffix \in {".ndjson", ".jsonl"} -> "get_ndjson_schema_and_preview"
      [] OTHER -> ""

\* get_preview, lines 47-48: finally: stored.cleanup()
PreviewFinallyOnReturn(d, raised) ==
    IF raised THEN d ELSE Cleanup(d, stored[1]).disk
PreviewFinally(d, raised) == Cleanup(d, stored[1]).disk

\* get_preview ends with an HTTPException
PreviewFail(error, from) ==
    /\ Fail(error, PreviewFinally(disk, TRUE), from)
    /\ resp' = resp

\* get_preview, lines 27-48: dispatch, extractor, cleanup
PreviewDispatch ==
    /\ preview.state = "acquired"
    /\ LET suffix == PreviewSuffix(stored[1].filename)
           extractor == Extractor(suffix)
       IN  IF extractor = ""
           THEN /\ PreviewFail(
                       HTTPException(400, "unsupported_preview",
                           <<"Unsupported file type for preview.">>),
                       RaisedIn("dispatch"))
                /\ preview' = [preview EXCEPT !.state = "unsupported",
                                  !.suffix = suffix]
           ELSE \E outcome \in {"result", "exc"} : \E text \in ExcTexts :
                   /\ preview' = [preview EXCEPT
                          !.state = IF outcome = "exc" THEN "extractor_failed"
                                    ELSE "returned",
                          !.suffix = suffix, !.extractor = extractor,
                          !.outcome = outcome]
                   /\ IF outcome = "exc"
                      THEN PreviewFail(
                              HTTPException(400, "preview_failed",
                                  <<"Failed to preview file: ">> \o text),
                              RaisedBy("extractor", 1, outcome, text))
                      ELSE /\ pc' = "previewed"
                           /\ resp' = [NoResponse EXCEPT !.state = "json",
                                          !.status = 200,
                                          !.media_type = "application/json"]
                           /\ disk' = PreviewFinally(disk, FALSE)
                           /\ UNCHANGED <<err, failure>>
    /\ cleanups' = CleanupCalls(cleanups, stored)
    /\ UNCHANGED <<auxVars, xfer, route, filesLeft, urlsLeft, stored, pending, streams,
                   archive, zcur, emitted, malformed>>

PreviewNext ==
    \/ PreviewRequest
    \/ PreviewAcquire
    \/ PreviewDispatch

SpecPreview == PreviewInit /\ [][PreviewNext]_vars

-----------------------------------------------------------------------------
(* SpecExtract: the preview extractors of converters/duck.py and
   converters/polars_ndjson.py. A text file is its sequence of lines, a line
   a sequence of tokens; the token "\\n" is the two characters backslash
   and n. A Parquet file is its sequence of rows. *)

Escape == "\\n"

\* str.replace("\\n", "\n") on one line: the lines it becomes
RECURSIVE SplitLine(_)
SplitLine(line) ==
    LET at == {i \in DOMAIN line : line[i] = Escape}
    IN  IF at = {} THEN <<line>>
        ELSE LET i == CHOOSE k \in at : \A j \in at : k <= j
             IN  <<SubSeq(line, 1, i - 1)>>
                     \o SplitLine(SubSeq(line, i + 1, Len(line)))

\* text.replace("\\r\\n", "\n").replace("\\n", "\n"), written to the
\* normalized temp file
RECURSIVE NormalizeText(_)
NormalizeText(lines) ==
    IF lines = <<>> THEN <<>>
    ELSE SplitLine(Head(lines)) \o NormalizeText(Tail(lines))

\* SELECT * ... LIMIT n
NoLimit(rows, n) == rows
Limit(rows, n) == SubSeq(rows, 1, Min(n, Len(rows)))

\* the rows of get_parquet_schema_and_preview
GetParquetPreview(rows) == Limit(rows, PreviewRows)

\* the rows of get_csv_schema_and_preview: read_csv(normalized, HEADER=TRUE)
GetCsvPreview(lines) == Limit(Tail(NormalizeText(lines)), PreviewRows)

\* the rows of get_ndjson_schema_and_preview
GetNdjsonPreview(lines) == Limit(NormalizeText(lines), PreviewRows)

Extractors ==
    {"get_parquet_schema_and_preview", "get_csv_schema_and_preview",
     "get_ndjson_schema_and_preview"}

Extract(op, file) ==
    CASE op = "get_parquet_schema_and_preview" -> GetParquetPreview(file)
      [] op = "get_csv_schema_and_preview" -> GetCsvPreview(file)
      [] op = "get_ndjson_schema_and_preview" -> GetNdjsonPreview(file)

\* escaped rows with a literal backslash-n in a value, then plain rows
DataRows(escaped, plain) ==
    [i \in 1..(escaped + plain) |->
        IF i <= escaped THEN <<"x", Escape, "y">> ELSE <<"x">>]

\* the inputs: few rows, or about PreviewRows of them
PreviewFiles(op) ==
    {(IF op = "get_csv_schema_and_preview" THEN <<(<<"h">>)>> ELSE <<>>)
         \o DataRows(e, n) :
       e \in 0..MaxEscaped,
       n \in (0..MaxShort) \cup ((PreviewRows - 2)..(PreviewRows + MaxExtra))}

ExtractInit ==
    /\ Init
    /\ route = [media_type |-> "text/csv", output_suffix |-> ".csv"]
    /\ filesLeft = 0
    /\ urlsLeft = 0

CallExtractor ==
    /\ fn.state = "idle"
    /\ \E op \in Extractors : \E file \in PreviewFiles(op) :
          fn' = [op |-> op, state |-> "called", args |-> <<file>>,
                 result |-> <<>>]
    /\ UNCHANGED <<handlerVars, tmpdir, reqs, cache, callers>>

ExtractorReturn ==
    /\ fn.state = "called"
    /\ fn.op \in Extractors
    /\ fn' = [fn EXCEPT !.state = "returned",
                        !.result = Extract(fn.op, fn.args[1])]
    /\ UNCHANGED <<handlerVars, tmpdir, reqs, cache, callers>>

ExtractNext ==
    \/ CallExtractor
    \/ ExtractorReturn

SpecExtract == ExtractInit /\ [][ExtractNext]_vars

-----------------------------------------------------------------------------
(* SpecConcurrent: requests served at the same time over one temp
   directory. The handlers are coroutines of one event loop that yield at
   every await (upload.read, the httpx stream), and the response generators
   run in worker threads, so the steps below (create, write, close, unlink)
   interleave freely between requests. *)

\* tempfile.NamedTemporaryFile: mkstemp opens with O_EXCL, so the name it
\* returns is one under which no file exists
AnyTempName(dir) == TempNames
NewTempName(dir) == {n \in TempNames : ~dir[n].exists}

\* NamedTemporaryFile(delete=False) by request r under name n
CreateFile(dir, n, r) ==
    [dir EXCEPT ![n] = [exists |-> TRUE, owner |-> r, open |-> TRUE,
                        size |-> 0, sealed |-> FALSE,
                        late |-> dir[n].exists /\ dir[n].sealed]]

\* tmp.write(chunk) on the file named n
WriteFile(dir, n) ==
    [dir EXCEPT ![n].size = @ + 1, ![n].late = @ \/ dir[n].sealed]

\* path.unlink(missing_ok=True): removes whatever file has the name
UnlinkName(dir, n) == [dir EXCEPT ![n] = NoFile]

ConcurrentInit ==
    /\ Init
    /\ route = [media_type |-> "text/csv", output_suffix |-> ".csv"]
    /\ filesLeft = 0
    /\ urlsLeft = 0

\* persist_sources starts on a request of 1..MaxSources sources
ReceiveRequest(r) ==
    /\ reqs[r].pc = "idle"
    /\ \E k \in 1..MaxSources :
          reqs' = [reqs EXCEPT ![r].pc = "acquiring", ![r].left = k]
    /\ UNCHANGED <<handlerVars, fn, tmpdir, cache, callers>>

\* persist_upload / persist_url open the temp file of the next source
CreateTemp(r) ==
    /\ reqs[r].pc = "acquiring"
    /\ reqs[r].writing = 0
    /\ \E n \in NewTempName(tmpdir) :
          /\ tmpdir' = CreateFile(tmpdir, n, r)
          /\ reqs' = [reqs EXCEPT ![r].writing = n]
    /\ UNCHANGED <<handlerVars, fn, cache, callers>>

\* one chunk read and written
WriteChunk(r) ==
    /\ reqs[r].pc = "acquiring"
    /\ reqs[r].writing # 0
    /\ tmpdir[reqs[r].writing].size < MaxWrites
    /\ tmpdir' = WriteFile(tmpdir, reqs[r].writing)
    /\ UNCHANGED <<handlerVars, fn, reqs, cache, callers>>

\* end of input: the with block closes the file, the StoredUpload is
\* appended; after the last source persist_sources returns
PersistReturn(r) ==
    /\ reqs[r].pc = "acquiring"
    /\ reqs[r].writing # 0
    /\ tmpdir' = [tmpdir EXCEPT ![reqs[r].writing].open = FALSE,
                                ![reqs[r].writing].sealed = TRUE]
    /\ reqs' = [reqs EXCEPT
                  ![r].stored = Append(@, reqs[r].writing),
                  ![r].writing = 0,
                  ![r].left = @ - 1,
                  ![r].pc = IF reqs[r].left = 1 THEN "converting"
                            ELSE "acquiring"]
    /\ UNCHANGED <<handlerVars, fn, cache, callers>>

\* an exception while reading: tmp.close(), _delete_path(temp_path), and
\* the callers start cleanup_uploads on what was stored
PersistFail(r) ==
    /\ reqs[r].pc = "acquiring"
    /\ reqs[r].writing # 0
    /\ tmpdir' = UnlinkName(tmpdir, reqs[r].writing)
    /\ reqs' = [reqs EXCEPT
                  ![r].writing = 0,
                  ![r].pc = IF reqs[r].stored = <<>> THEN "done"
                            ELSE "cleaning"]
    /\ UNCHANGED <<handlerVars, fn, cache, callers>>

\* an adapter opens its own temp file for the converted output
AdapterOpen(r) ==
    /\ reqs[r].pc = "converting"
    /\ reqs[r].scratch = 0
    /\ \E n \in NewTempName(tmpdir) :
          /\ tmpdir' = CreateFile(tmpdir, n, r)
          /\ reqs' = [reqs EXCEPT ![r].scratch = n]
    /\ UNCHANGED <<handlerVars, fn, cache, callers>>

\* the adapter reads the stored file and writes its own
AdapterWrite(r) ==
    /\ reqs[r].pc = "converting"
    /\ reqs[r].scratch # 0
    /\ tmpdir[reqs[r].scratch].size < MaxWrites
    /\ tmpdir' = WriteFile(tmpdir, reqs[r].scratch)
    /\ UNCHANGED <<handlerVars, fn, reqs, cache, callers>>

\* the adapter's finally unlinks its temp file; the response's finally
\* then starts cleanup_uploads
AdapterClose(r) ==
    /\ reqs[r].pc = "converting"
    /\ reqs[r].scratch # 0
    /\ tmpdir' = UnlinkName(tmpdir, reqs[r].scratch)
    /\ reqs' = [reqs EXCEPT ![r].scratch = 0, ![r].pc = "cleaning"]
    /\ UNCHANGED <<handlerVars, fn, cache, callers>>

\* cleanup_uploads: stored.cleanup() of the next StoredUpload
CleanupStep(r) ==
    /\ reqs[r].pc = "cleaning"
    /\ reqs[r].stored # <<>>
    /\ tmpdir' = UnlinkName(tmpdir, Head(reqs[r].stored))
    /\ reqs' = [reqs EXCEPT
                  ![r].stored = Tail(@),
                  ![r].pc = IF Len(reqs[r].stored) = 1 THEN "done"
                            ELSE "cleaning"]
    /\ UNCHANGED <<handlerVars, fn, cache, callers>>

ConcurrentNext ==
    \/ \E r \in Requests : ReceiveRequest(r)
    \/ \E r \in Requests : CreateTemp(r)
    \/ \E r \in Requests : WriteChunk(r)
    \/ \E r \in Requests : PersistReturn(r)
    \/ \E r \in Requests : PersistFail(r)
    \/ \E r \in Requests : AdapterOpen(r)
    \/ \E r \in Requests : AdapterWrite(r)
    \/ \E r \in Requests : AdapterClose(r)
    \/ \E r \in Requests : CleanupStep(r)

SpecConcurrent == ConcurrentInit /\ [][ConcurrentNext]_vars

-----------------------------------------------------------------------------
(* SpecSink: services/supabase_client.py. insert_feedback and
   insert_session_metric are coroutines of one event loop: the client is
   resolved before the first await, so resolutions do not interleave; the
   insert runs in a worker thread (asyncio.to_thread), so inserts of
   different callers overlap. *)

SinkOps == {"insert_feedback", "insert_session_metric"}

\* the detail codes of the two functions
NotConfigured(op) ==
    IF op = "insert_feedback" THEN "feedback_supabase_not_configured"
    ELSE "metric_supabase_not_configured"

PersistFailed(op) ==
    IF op = "insert_feedback" THEN "feedback_persist_failed"
    ELSE "metric_persist_failed"

\* what the body of get_supabase_client can do: return create_client's
\* client, raise RuntimeError (package or credentials missing), or let an
\* exception of create_client through (the library rejects a malformed
\* URL or key with its own exception class)
ConstructOutcomes == {"client", "RuntimeError", "ClientError"}

\* an exception that is no HTTPException
ClientError == [status |-> 0, code |-> "Exception", message |-> <<>>]

\* lru_cache(maxsize=1) on a function without arguments: the cached
\* result, 0 when there is none
NoCache(c) == 0
CacheLookup(c) == c.client

\* _get_client_or_raise translates RuntimeError only
ResolveError(op, outcome) ==
    IF outcome = "RuntimeError"
    THEN HTTPException(500, NotConfigured(op),
                       <<"Supabase credentials are not configured.">>)
    ELSE ClientError

SinkInit ==
    /\ Init
    /\ route = [media_type |-> "text/csv", output_suffix |-> ".csv"]
    /\ filesLeft = 0
    /\ urlsLeft = 0

\* client = _get_client_or_raise(code), served from the cache
ResolveCached(c) ==
    /\ callers[c].pc = "idle"
    /\ CacheLookup(cache) # 0
    /\ \E op \in SinkOps :
          callers' = [callers EXCEPT ![c].pc = "inserting", ![c].op = op,
                                     ![c].client = CacheLookup(cache)]
    /\ UNCHANGED <<handlerVars, fn, tmpdir, reqs, cache>>

\* client = _get_client_or_raise(code), the cache empty: the body of
\* get_supabase_client runs; only a returned client is cached
ResolveConstruct(c) ==
    /\ callers[c].pc = "idle"
    /\ CacheLookup(cache) = 0
    /\ \E op \in SinkOps : \E outcome \in ConstructOutcomes :
          IF outcome = "client"
          THEN /\ cache' = [cache EXCEPT !.client = cache.constructed + 1,
                                         !.constructed = @ + 1]
               /\ callers' = [callers EXCEPT
                                ![c].pc = "inserting", ![c].op = op,
                                ![c].client = cache.constructed + 1]
          ELSE /\ cache' = [cache EXCEPT !.failed = @ + 1]
               /\ callers' = [callers EXCEPT
                                ![c].pc = "raised", ![c].op = op,
                                ![c].error = ResolveError(op, outcome)]
    /\ UNCHANGED <<handlerVars, fn, tmpdir, reqs>>

\* await asyncio.to_thread(_execute) returns
InsertReturn(c) ==
    /\ callers[c].pc = "inserting"
    /\ callers' = [callers EXCEPT ![c].pc = "returned",
                                  ![c].attempted = TRUE]
    /\ UNCHANGED <<handlerVars, fn, tmpdir, reqs, cache>>

\* _execute raises: except Exception translates
InsertRaise(c) ==
    /\ callers[c].pc = "inserting"
    /\ callers' = [callers EXCEPT
                     ![c].pc = "raised",
                     ![c].attempted = TRUE,
                     ![c].error =
                         HTTPException(500, PersistFailed(callers[c].op),
                                       <<"Unable to persist at this time.">>)]
    /\ UNCHANGED <<handlerVars, fn, tmpdir, reqs, cache>>

SinkNext ==
    \/ \E c \in Callers : ResolveCached(c)
    \/ \E c \in Callers : ResolveConstruct(c)
    \/ \E c \in Callers : InsertReturn(c)
    \/ \E c \in Callers : InsertRaise(c)

SpecSink == SinkInit /\ [][SinkNext]_vars

-----------------------------------------------------------------------------
(* SpecChunks: utils/streams.py. make_iterator_from_tempfile is a
   generator: the call creates it, every pull runs read_from_binaryio up to
   its next yield. A file is its sequence of bytes. *)

\* the chunks in one piece
RECURSIVE Concat(_)
Concat(chunks) ==
    IF chunks = <<>> THEN <<>> ELSE Head(chunks) \o Concat(Tail(chunks))

\* handle.read(n) at position pos: up to n bytes, nothing for n = 0, the
\* rest of the file for n < 0
ReadWhole(content, pos, n) == SubSeq(content, pos + 1, Len(content))
FileRead(content, pos, n) ==
    IF n < 0 THEN SubSeq(content, pos + 1, Len(content))
    ELSE SubSeq(content, pos + 1, Min(pos + n, Len(content)))

Bytes == {0, 1}

Contents == UNION {[1..n -> Bytes] : n \in 0..MaxFileLen}

\* the chunk sizes a caller can pass: negative, zero, positive
ChunkSizes == (0 - 1)..MaxRead

ChunksInit ==
    /\ Init
    /\ route = [media_type |-> "text/csv", output_suffix |-> ".csv"]
    /\ filesLeft = 0
    /\ urlsLeft = 0

\* make_iterator_from_tempfile(path, chunk_size=n): nothing runs yet
CallIterator ==
    /\ fn.state = "idle"
    /\ \E content \in Contents : \E n \in ChunkSizes :
          fn' = [op |-> "make_iterator_from_tempfile", state |-> "created",
                 args |-> <<content, n, 1>>, result |-> <<>>]
    /\ UNCHANGED <<handlerVars, tmpdir, reqs, cache, callers>>

\* next(): the file is opened on the first pull; chunk = handle.read(n);
\* an empty chunk ends the generator, any other is yielded
NextChunk ==
    /\ fn.op = "make_iterator_from_tempfile"
    /\ fn.state \in {"created", "yielded"}
    /\ LET chunk == FileRead(fn.args[1], Len(Concat(fn.result)), fn.args[2])
       IN  fn' = IF chunk = <<>>
                 THEN [fn EXCEPT !.state = "ended"]
                 ELSE [fn EXCEPT !.state = "yielded",
                                 !.result = Append(@, chunk)]
    /\ UNCHANGED <<handlerVars, tmpdir, reqs, cache, callers>>

\* the function is called again on the same path, after the first
\* generator ended or was left where it stood
Reinvoke ==
    /\ fn.op = "make_iterator_from_tempfile"
    /\ fn.state \in {"yielded", "ended"}
    /\ fn.args[3] < MaxRuns
    /\ fn' = [fn EXCEPT !.state = "created", !.result = <<>>,
                        !.args = <<fn.args[1], fn.args[2], fn.args[3] + 1>>]
    /\ UNCHANGED <<handlerVars, tmpdir, reqs, cache, callers>>

\* persist_upload(upload, chunk_size=n) on an upload of the given length
CallPersistChunked ==
    /\ fn.state = "idle"
    /\ \E len \in 0..MaxFileLen : \E n \in ChunkSizes :
          fn' = [op |-> "persist_upload", state |-> "called",
                 args |-> <<len, n>>, result |-> <<>>]
    /\ UNCHANGED <<handlerVars, tmpdir, reqs, cache, callers>>

PersistChunkedReturn ==
    /\ fn.op = "persist_upload"
    /\ fn.state = "called"
    /\ fn' = [fn EXCEPT
                !.state = "returned",
                !.result = <<PersistUpload([name |-> <<"alpha", ".csv">>,
                                            len |-> fn.args[1],
                                            failIn |-> NoFail],
                                           MaxFileLen, fn.args[2])>>]
    /\ UNCHANGED <<handlerVars, tmpdir, reqs, cache, callers>>

ChunksNext ==
    \/ CallIterator
    \/ NextChunk
    \/ Reinvoke
    \/ CallPersistChunked
    \/ PersistChunkedReturn

SpecChunks == ChunksInit /\ [][ChunksNext]_vars

-----------------------------------------------------------------------------
(* SpecFilename: _filename_from_url on the text of the URL path and of the
   Content-Disposition header. A path is a sequence of tokens in which "/"
   separates the segments and "%2F", "%20", "%2E" are percent-encoded
   characters; a header is the sequence of its ";"-separated fragments,
   each a key and the text after "=". *)

\* urllib.parse.unquote on one token
UnquoteToken(t) ==
    CASE t = "%2F" -> "/"
      [] t = "%20" -> " "
      [] t = "%2E" -> "."
      [] OTHER -> t

Unquote(text) == [i \in DOMAIN text |-> UnquoteToken(text[i])]

\* the pieces of a text between its "/" tokens
RECURSIVE SplitSlash(_)
SplitSlash(text) ==
    LET at == {i \in DOMAIN text : text[i] = "/"}
    IN  IF at = {} THEN <<text>>
        ELSE LET i == CHOOSE k \in at : \A j \in at : k <= j
             IN  <<SubSeq(text, 1, i - 1)>>
                     \o SplitSlash(SubSeq(text, i + 1, Len(text)))

\* Path(text).name: pathlib drops empty and "." components; the name is
\* the last component left, or empty
UrlPathName(text) ==
    LET parts == SelectSeq(SplitSlash(text),
                           LAMBDA c : c # <<>> /\ c # <<".">>)
    IN  IF parts = <<>> THEN <<>> ELSE parts[Len(parts)]

\* lines 106-112: the value of the first fragment that starts with
\* "filename=" in any case and whose value, quotes stripped, is not empty
CdFilename(header) ==
    LET at == {i \in DOMAIN header :
                 Lower(header[i].key) = "filename" /\ header[i].value # <<>>}
    IN  IF at = {} THEN <<>>
        ELSE header[CHOOSE k \in at : \A j \in at : k <= j].value

\* _filename_from_url(url, content_disposition)
FilenameUrlFirst(path, header) ==
    IF UrlPathName(Unquote(path)) # <<>> THEN UrlPathName(Unquote(path))
    ELSE IF CdFilename(header) # <<>> THEN CdFilename(header)
    ELSE <<"download">>
FilenameFrom(path, header) ==
    IF CdFilename(header) # <<>> THEN CdFilename(header)
    ELSE IF UrlPathName(Unquote(path)) # <<>>
         THEN UrlPathName(Unquote(path))
         ELSE <<"download">>

\* path segments: empty (a trailing slash), a name, ".", "..", and names
\* with an encoded slash or space
UrlSegments ==
    {<<>>, <<"a", ".csv">>, <<".">>, <<"..">>, <<"a", "%2F", "b">>,
     <<"a", "%20", "b">>, <<"%2E">>}

RECURSIVE JoinSegments(_)
JoinSegments(segs) ==
    IF segs = <<>> THEN <<>>
    ELSE <<"/">> \o Head(segs) \o JoinSegments(Tail(segs))

UrlPaths ==
    {JoinSegments(segs) :
       segs \in UNION {[1..n -> UrlSegments] : n \in 0..MaxSegments}}

\* header fragments: a disposition type, filename parameters with and
\* without a value, in upper case, and the extended filename* parameter
CdFragments ==
    {[key |-> "attachment", value |-> <<>>],
     [key |-> "filename", value |-> <<"y", ".csv">>],
     [key |-> "filename", value |-> <<>>],
     [key |-> "FILENAME", value |-> <<"z">>],
     [key |-> "filename*", value |-> <<"w">>]}

\* no header, or a header of some fragments
CdHeaders == UNION {[1..n -> CdFragments] : n \in 0..MaxSegments}

FilenameInit ==
    /\ Init
    /\ route = [media_type |-> "text/csv", output_suffix |-> ".csv"]
    /\ filesLeft = 0
    /\ urlsLeft = 0

CallFilenameFromUrl ==
    /\ fn.state = "idle"
    /\ \E path \in UrlPaths : \E header \in CdHeaders :
          fn' = [op |-> "_filename_from_url", state |-> "called",
                 args |-> <<path, header>>, result |-> <<>>]
    /\ UNCHANGED <<handlerVars, tmpdir, reqs, cache, callers>>

FilenameReturn ==
    /\ fn.op = "_filename_from_url"
    /\ fn.state = "called"
    /\ fn' = [fn EXCEPT !.state = "returned",
                        !.result = FilenameFrom(fn.args[1], fn.args[2])]
    /\ UNCHANGED <<handlerVars, tmpdir, reqs, cache, callers>>

FilenameNext ==
    \/ CallFilenameFromUrl
    \/ FilenameReturn

SpecFilename == FilenameInit /\ [][FilenameNext]_vars

-----------------------------------------------------------------------------
(* SpecNdjson: _flatten_record and ndjson_to_csv_stream of
   converters/polars_ndjson.py. A JSON value is [t, v]: a scalar with its
   text, a list with its elements, a dict with its fields in order, each
   field <<key, value>>. A key is a sequence of names: the key "a.b" is
   <<"a", "b">>, so that joining with "." is concatenation. A Python dict
   is a sequence of [key, value] with distinct keys, in insertion order. *)

Scalar(text) == [t |-> "scalar", v |-> text]
List(elements) == [t |-> "list", v |-> elements]
Dict(fields) == [t |-> "dict", v |-> fields]

\* the text of a key: its names joined by "."
RECURSIVE KeyText(_)
KeyText(key) ==
    IF Len(key) <= 1 THEN key
    ELSE <<Head(key), ".">> \o KeyText(Tail(key))

\* json.dumps(value)
RECURSIVE JsonText(_)
RECURSIVE JsonItems(_)
RECURSIVE JsonFields(_)
JsonItems(elements) ==
    IF elements = <<>> THEN <<>>
    ELSE JsonText(Head(elements))
             \o (IF Len(elements) = 1 THEN <<>> ELSE <<", ">>)
             \o JsonItems(Tail(elements))
JsonFields(fields) ==
    IF fields = <<>> THEN <<>>
    ELSE <<"\"">> \o KeyText(Head(fields)[1]) \o <<"\": ">>
             \o JsonText(Head(fields)[2])
             \o (IF Len(fields) = 1 THEN <<>> ELSE <<", ">>)
             \o JsonFields(Tail(fields))
JsonText(value) ==
    CASE value.t = "scalar" -> value.v
      [] value.t = "list" -> <<"[">> \o JsonItems(value.v) \o <<"]">>
      [] value.t = "dict" -> <<"{">> \o JsonFields(value.v) \o <<"}">>

\* items[key] = value: a new key goes to the end, a key already there
\* keeps its place and takes the value
DictSet(items, key, value) ==
    IF \E i \in DOMAIN items : items[i].key = key
    THEN [i \in DOMAIN items |->
             IF items[i].key = key THEN [key |-> key, value |-> value]
             ELSE items[i]]
    ELSE Append(items, [key |-> key, value |-> value])

\* items.update(other)
RECURSIVE DictUpdate(_, _)
DictUpdate(items, other) ==
    IF other = <<>> THEN items
    ELSE DictUpdate(DictSet(items, Head(other).key, Head(other).value),
                    Tail(other))

\* lines 25-28: a list is stored as its JSON text, any other value as is
CellRaw(value) == value
Cell(value) ==
    IF value.t = "list" THEN Scalar(JsonText(value)) ELSE value

\* _flatten_record(data, parent_key=parent): the loop over data.items(),
\* from the dict items built so far
RECURSIVE FlattenInto(_, _, _)
FlattenInto(items, fields, parent) ==
    IF fields = <<>> THEN items
    ELSE LET key == Head(fields)[1]
             value == Head(fields)[2]
             new_key == IF parent # <<>> THEN parent \o key ELSE key
             next == IF value.t = "dict"
                     THEN DictUpdate(items,
                                     FlattenInto(<<>>, value.v, new_key))
                     ELSE DictSet(items, new_key, Cell(value))
         IN  FlattenInto(next, Tail(fields), parent)

FlattenRecord(data) == FlattenInto(<<>>, data, <<>>)

\* dict.get(key, default)
DictGet(items, key, default) ==
    IF \E i \in DOMAIN items : items[i].key = key
    THEN items[CHOOSE i \in DOMAIN items : items[i].key = key].value
    ELSE default

\* _collect_ndjson_rows, lines 74-78: the keys not seen before, appended
RECURSIVE HeadersFrom(_, _)
HeadersFrom(headers, flats) ==
    IF flats = <<>> THEN headers
    ELSE LET keys == [i \in DOMAIN Head(flats) |-> Head(flats)[i].key]
             seen == {headers[i] : i \in DOMAIN headers}
             new == SelectSeq(keys, LAMBDA k : k \notin seen)
         IN  HeadersFrom(headers \o new, Tail(flats))

HeadersOfFirst(flats) ==
    IF flats = <<>> THEN <<>>
    ELSE [i \in DOMAIN Head(flats) |-> Head(flats)[i].key]
Headers(flats) == HeadersFrom(<<>>, flats)

\* what csv.DictWriter writes for a value: "" for the default, the text of
\* a scalar
CsvField(value) == IF value.t = "missing" THEN <<>> ELSE JsonText(value)

\* ndjson_to_csv_stream, lines 87-101: the header row when there are
\* columns, then one row per buffered record over the columns
NdjsonToCsv(records) ==
    LET flats == [r \in DOMAIN records |-> FlattenRecord(records[r])]
        fieldnames == Headers(flats)
    IN  [header |-> fieldnames,
         rows |-> [r \in DOMAIN flats |->
                      [j \in DOMAIN fieldnames |->
                          CsvField(DictGet(flats[r], fieldnames[j],
                                           [t |-> "missing", v |-> <<>>]))]]]

\* the values and keys of the records that are flattened
FieldValues ==
    {Scalar(<<"1">>), Scalar(<<"2">>),
     List(<<Scalar(<<"1">>), Scalar(<<"2">>)>>),
     List(<<Dict(<<(<<(<<"x">>), Scalar(<<"1">>)>>)>>)>>),
     Dict(<<>>),
     Dict(<<(<<(<<"b">>), Scalar(<<"2">>)>>)>>),
     Dict(<<(<<(<<"b">>), Dict(<<(<<(<<"c">>), Scalar(<<"1">>)>>)>>)>>)>>),
     Dict(<<(<<(<<"b">>), List(<<Scalar(<<"1">>)>>)>>)>>)}

FieldKeys == {<<"a">>, <<"id">>, <<"a", "b">>}

\* JSON objects of up to MaxFields fields with distinct keys
FlattenInputs ==
    {fields \in UNION {[1..n -> FieldKeys \X FieldValues] :
                          n \in 0..MaxFields} :
        \A i, j \in DOMAIN fields : i # j => fields[i][1] # fields[j][1]}

\* the records of the NDJSON files that are converted
NdjsonRecords ==
    {<<>>,
     <<(<<(<<"id">>), Scalar(<<"1">>)>>)>>,
     <<(<<(<<"id">>), Scalar(<<"2">>)>>),
       (<<(<<"a">>), Dict(<<(<<(<<"b">>), Scalar(<<"1">>)>>)>>)>>)>>,
     <<(<<(<<"a">>), Dict(<<(<<(<<"b">>), Scalar(<<"2">>)>>)>>)>>),
       (<<(<<"tags">>), List(<<Scalar(<<"1">>), Scalar(<<"2">>)>>)>>)>>,
     <<(<<(<<"a", "b">>), Scalar(<<"1">>)>>),
       (<<(<<"id">>), Scalar(<<"2">>)>>)>>}

NdjsonFiles == UNION {[1..n -> NdjsonRecords] : n \in 0..MaxRecords}

NdjsonInit ==
    /\ Init
    /\ route = [media_type |-> "text/csv", output_suffix |-> ".csv"]
    /\ filesLeft = 0
    /\ urlsLeft = 0

CallFlatten ==
    /\ fn.state = "idle"
    /\ \E data \in FlattenInputs :
          fn' = [op |-> "_flatten_record", state |-> "called",
                 args |-> <<data>>, result |-> <<>>]
    /\ UNCHANGED <<handlerVars, tmpdir, reqs, cache, callers>>

FlattenReturn ==
    /\ fn.op = "_flatten_record"
    /\ fn.state = "called"
    /\ fn' = [fn EXCEPT !.state = "returned",
                        !.result = FlattenRecord(fn.args[1])]
    /\ UNCHANGED <<handlerVars, tmpdir, reqs, cache, callers>>

CallNdjsonToCsv ==
    /\ fn.state = "idle"
    /\ \E records \in NdjsonFiles :
          fn' = [op |-> "ndjson_to_csv_stream", state |-> "called",
                 args |-> <<records>>, result |-> <<>>]
    /\ UNCHANGED <<handlerVars, tmpdir, reqs, cache, callers>>

\* the generator run to its end: the CSV it has streamed
NdjsonToCsvReturn ==
    /\ fn.op = "ndjson_to_csv_stream"
    /\ fn.state = "called"
    /\ fn' = [fn EXCEPT !.state = "returned",
                        !.result = <<NdjsonToCsv(fn.args[1])>>]
    /\ UNCHANGED <<handlerVars, tmpdir, reqs, cache, callers>>

\* _iter_ndjson_lines. A line is its tokens: a piece of JSON text, a
\* blank, the literal sequences backslash-n and backslash-r-backslash-n,
\* and "LS", one of the characters other than a line feed at which
\* str.splitlines breaks a string (U+2028, U+2029, U+0085, ...), all of
\* them legal inside a JSON string.
EscapeCrLf == "\\r\\n"

Blanks == {" ", "LS"}

\* trimmed.replace("\\r\\n", "\n").replace("\\n", "\n")
ReplaceEscapes(line) ==
    [i \in DOMAIN line |->
        IF line[i] \in {Escape, EscapeCrLf} THEN "\n" ELSE line[i]]

\* str.splitlines(): the pieces between line boundaries; no empty piece
\* after a boundary that ends the string
RECURSIVE SplitLines(_)
SplitLines(text) ==
    LET at == {i \in DOMAIN text : text[i] \in {"\n", "LS"}}
    IN  IF text = <<>> THEN <<>>
        ELSE IF at = {} THEN <<text>>
        ELSE LET i == CHOOSE k \in at : \A j \in at : k <= j
             IN  <<SubSeq(text, 1, i - 1)>>
                     \o SplitLines(SubSeq(text, i + 1, Len(text)))

\* str.strip(): no white space at either end
RECURSIVE Strip(_)
Strip(text) ==
    IF text = <<>> THEN text
    ELSE IF Head(text) \in Blanks THEN Strip(Tail(text))
    ELSE IF text[Len(text)] \in Blanks
         THEN Strip(SubSeq(text, 1, Len(text) - 1))
         ELSE text

\* lines 39-52 for one line of the file: the candidates it yields
LineCandidates(trimmed) ==
    IF trimmed = <<>> THEN <<>>
    ELSE IF \E i \in DOMAIN trimmed : trimmed[i] \in {Escape, EscapeCrLf}
         THEN SelectSeq([i \in DOMAIN SplitLines(ReplaceEscapes(trimmed)) |->
                            Strip(SplitLines(ReplaceEscapes(trimmed))[i])],
                        LAMBDA c : c # <<>>)
         ELSE IF Strip(trimmed) = <<>> THEN <<>> ELSE <<Strip(trimmed)>>

RECURSIVE IterNdjsonLines(_)
IterNdjsonLines(lines) ==
    IF lines = <<>> THEN <<>>
    ELSE LineCandidates(Head(lines)) \o IterNdjsonLines(Tail(lines))

LineTokens == {"{a}", "{b}", " ", "LS", Escape, EscapeCrLf}

\* files of one line, or of one line and a short second one
LineFiles ==
    LET first == UNION {[1..n -> LineTokens] : n \in 0..MaxLineTokens}
    IN  {<<l>> : l \in first}
            \cup {<<l, m>> : l \in first, m \in {<<>>, <<"{b}">>}}

CallIterLines ==
    /\ fn.state = "idle"
    /\ \E lines \in LineFiles :
          fn' = [op |-> "_iter_ndjson_lines", state |-> "called",
                 args |-> <<lines>>, result |-> <<>>]
    /\ UNCHANGED <<handlerVars, tmpdir, reqs, cache, callers>>

\* the generator run to its end
IterLinesReturn ==
    /\ fn.op = "_iter_ndjson_lines"
    /\ fn.state = "called"
    /\ fn' = [fn EXCEPT !.state = "returned",
                        !.result = IterNdjsonLines(fn.args[1])]
    /\ UNCHANGED <<handlerVars, tmpdir, reqs, cache, callers>>

NdjsonNext ==
    \/ CallFlatten
    \/ FlattenReturn
    \/ CallNdjsonToCsv
    \/ NdjsonToCsvReturn
    \/ CallIterLines
    \/ IterLinesReturn

SpecNdjson == NdjsonInit /\ [][NdjsonNext]_vars

-----------------------------------------------------------------------------
(* SpecAdapters: the four adapters of converters/duck.py and
   converters/polars_ndjson.py as the generators they are. A table is
   [header, rows]; a cell and a column name are token sequences, "NL" in a
   cell is a line feed inside the value. A CSV file is the header line and
   the row lines, a Parquet file the schema and the rows, an NDJSON file its
   lines of JSON text. The generator is fn: args = <<input, original>>,
   result = [chunks, content, pos, temps, error]; temps are the temp files
   of the adapter that exist, original is the table a round trip began
   with. *)

Adapters ==
    {"parquet_to_csv_stream", "csv_to_parquet_stream",
     "ndjson_to_csv_stream", "csv_to_ndjson_stream"}

NoOutput ==
    [chunks |-> <<>>, content |-> <<>>, pos |-> 0, temps |-> {},
     error |-> ""]

\* a file of a table: the header, then the rows
TableFile(table) == <<table.header>> \o table.rows

\* the table of a CSV text: nothing at all is a table of no column
ParseCsv(units) ==
    IF units = <<>> THEN [header |-> <<>>, rows |-> <<>>]
    ELSE [header |-> Head(units), rows |-> Tail(units)]

\* the JSON text of a string: a line feed is written backslash-n
JsonString(cell) ==
    [i \in DOMAIN cell |-> IF cell[i] = "NL" THEN Escape ELSE cell[i]]

\* df.write_ndjson: one line per row, {"name": value, ...}
RECURSIVE JsonObjectFields(_, _)
JsonObjectFields(header, row) ==
    IF header = <<>> THEN <<>>
    ELSE Head(header) \o <<":">> \o JsonString(Head(row))
             \o (IF Len(header) = 1 THEN <<>> ELSE <<",">>)
             \o JsonObjectFields(Tail(header), Tail(row))

WriteNdjson(table) ==
    [r \in DOMAIN table.rows |->
        <<"{">> \o JsonObjectFields(table.header, table.rows[r]) \o <<"}">>]

\* json.loads of a candidate: whether it is a JSON object, and its
\* fields. A field is a name, ":" and the text of its value.
RECURSIVE SplitComma(_)
SplitComma(text) ==
    LET at == {i \in DOMAIN text : text[i] = ","}
    IN  IF at = {} THEN <<text>>
        ELSE LET i == CHOOSE k \in at : \A j \in at : k <= j
             IN  <<SubSeq(text, 1, i - 1)>>
                     \o SplitComma(SubSeq(text, i + 1, Len(text)))

JsonLoads(text) ==
    LET fields == IF Len(text) < 2 THEN <<>>
                  ELSE SplitComma(SubSeq(text, 2, Len(text) - 1))
        ok(f) == /\ Len(f) >= 3 /\ f[2] = ":"
                 /\ \A i \in DOMAIN f : f[i] \notin {"{", "}"}
        valid == /\ Len(text) >= 2
                 /\ Head(text) = "{" /\ text[Len(text)] = "}"
                 /\ \/ Len(text) = 2
                    \/ \A i \in DOMAIN fields : ok(fields[i])
    IN  [ok |-> valid,
         fields |-> IF valid /\ Len(text) > 2
                    THEN [i \in DOMAIN fields |->
                             <<(<<fields[i][1]>>),
                               Scalar(SubSeq(fields[i], 3, Len(fields[i])))>>]
                    ELSE <<>>]

\* _collect_ndjson_rows and lines 88-101 of ndjson_to_csv_stream: whether
\* every candidate is a JSON object, and the CSV written to the temp file
NdjsonCsvFile(lines) ==
    LET candidates == IterNdjsonLines(lines)
        loaded == [i \in DOMAIN candidates |-> JsonLoads(candidates[i])]
        valid == \A i \in DOMAIN loaded : loaded[i].ok
        csv == NdjsonToCsv([i \in DOMAIN loaded |-> loaded[i].fields])
        names == [j \in DOMAIN csv.header |-> KeyText(csv.header[j])]
    IN  [ok |-> valid,
         content |-> IF ~valid THEN <<>>
                     ELSE IF names = <<>> THEN csv.rows
                     ELSE <<names>> \o csv.rows]

\* the generator ends, raises, or yields a chunk
EndOf(g) == [g EXCEPT !.temps = {}]
RaiseIn(g, error, left) == [g EXCEPT !.error = error, !.temps = left]
YieldFrom(g, chunk) ==
    [g EXCEPT !.chunks = Append(@, chunk), !.pos = @ + Len(chunk)]

\* parquet_to_csv_stream, one pull: execute on the first, then one batch
\* of input.batch rows per pull; g.pos counts the units yielded, the
\* header included. A file is malformed at "open" (execute raises) or
\* "late" (a batch after the first cannot be read).
ParquetToCsvPull(g, input) ==
    LET read == IF g.chunks = <<>> THEN 0 ELSE g.pos - 1
        rows == input.table.rows
        batch == SubSeq(rows, read + 1, Min(read + input.batch, Len(rows)))
    IN  IF g.chunks = <<>> /\ input.malformed = "open"
        THEN RaiseIn(g, "open", {})
        ELSE IF g.chunks # <<>> /\ batch # <<>> /\ input.malformed = "late"
        THEN RaiseIn(g, "late", {})
        ELSE IF batch = <<>> THEN EndOf(g)
        ELSE YieldFrom(g, (IF g.chunks = <<>> THEN <<input.table.header>>
                           ELSE <<>>) \o batch)

\* the temp files an adapter has when its conversion raises: the finally
\* clause of the two CSV adapters covers their file; the buffer of
\* _collect_ndjson_rows is made outside any try
LeftOnError(op) == IF op = "ndjson_to_csv_stream" THEN {"buffer"} ELSE {}

\* the first pull of an adapter that converts into a temp file: the temp
\* files it makes and the content of the one it streams, if it succeeds
Converted_(op, input) ==
    CASE op = "csv_to_parquet_stream" ->
           [ok |-> input.malformed = "no", temps |-> {"parquet"},
            content |-> TableFile(input.table)]
      [] op = "csv_to_ndjson_stream" ->
           [ok |-> input.malformed = "no", temps |-> {"ndjson"},
            content |-> WriteNdjson(input.table)]
      [] op = "ndjson_to_csv_stream" ->
           [ok |-> NdjsonCsvFile(input.lines).ok,
            temps |-> {"buffer", "csv"},
            content |-> NdjsonCsvFile(input.lines).content]

\* yield from make_iterator_from_tempfile(temp_path), one pull
TempFilePull(g, n) ==
    LET chunk == FileRead(g.content, g.pos, n)
    IN  IF chunk = <<>> THEN EndOf(g) ELSE YieldFrom(g, chunk)

AdapterPull(op, g, input, started) ==
    IF op = "parquet_to_csv_stream" THEN ParquetToCsvPull(g, input)
    ELSE IF started THEN TempFilePull(g, input.units)
    ELSE IF ~Converted_(op, input).ok
         THEN RaiseIn(g, "invalid", LeftOnError(op))
         ELSE TempFilePull([g EXCEPT
                               !.temps = Converted_(op, input).temps,
                               !.content = Converted_(op, input).content],
                           input.units)

\* the inputs
Cells == {<<"1">>, <<"2">>, <<"x", "NL", "y">>}

Tables ==
    UNION {[header : {<<(<<"a">>), (<<"b">>)>>},
            rows : UNION {[1..n -> [1..2 -> Cells]] : n \in 0..MaxRows}],
           [header : {<<(<<"a">>)>>},
            rows : UNION {[1..n -> [1..1 -> Cells]] : n \in 0..MaxRows}]}

AdapterInputs(op) ==
    CASE op = "parquet_to_csv_stream" ->
           [format : {"parquet"}, table : Tables,
            malformed : {"no", "open", "late"}, batch : 1..MaxUnits]
      [] op = "ndjson_to_csv_stream" ->
           [format : {"ndjson"},
            lines : {WriteNdjson(t) : t \in Tables}
                        \cup {<<(<<"{", "a", ":", "1", "}">>), (<<"[">>)>>,
                               <<(<<"{", "a", ":", "1", "}">>),
                                 (<<"{", "b", ":", "2", "}">>)>>},
            units : 1..MaxUnits]
      [] OTHER ->
           [format : {"csv"}, table : Tables, malformed : {"no", "open"},
            units : 1..MaxUnits]

\* the input of the opposite adapter made of what an adapter has yielded
OutputAsInput(op, units, n) ==
    IF op = "csv_to_parquet_stream"
    THEN [format |-> "parquet", table |-> ParseCsv(units),
          malformed |-> "no", batch |-> n]
    ELSE [format |-> "ndjson", lines |-> units, units |-> n]

NoRoundTrip == [round |-> FALSE, table |-> ParseCsv(<<>>)]

\* adapter(path): the generator object, nothing has run
CallAdapter ==
    /\ fn.state = "idle"
    /\ \E op \in Adapters : \E input \in AdapterInputs(op) :
          fn' = [op |-> op, state |-> "created",
                 args |-> <<input, NoRoundTrip>>, result |-> NoOutput]
    /\ UNCHANGED <<handlerVars, tmpdir, reqs, cache, callers>>

\* next(generator)
PullAdapter ==
    /\ fn.op \in Adapters
    /\ fn.state \in {"created", "running"}
    /\ LET g == AdapterPull(fn.op, fn.result, fn.args[1],
                            fn.state = "running")
       IN  fn' = [fn EXCEPT
                    !.result = g,
                    !.state = IF g.error # "" THEN "raised"
                              ELSE IF g.chunks = fn.result.chunks
                                   THEN "ended" ELSE "running"]
    /\ UNCHANGED <<handlerVars, tmpdir, reqs, cache, callers>>

\* generator.close(): nothing to do before the first pull; GeneratorExit
\* at the yield runs the finally clauses
CloseAdapter ==
    /\ fn.op \in Adapters
    /\ fn.state \in {"created", "running"}
    /\ fn' = [fn EXCEPT !.state = "closed", !.result = EndOf(fn.result)]
    /\ UNCHANGED <<handlerVars, tmpdir, reqs, cache, callers>>

\* the output of a CSV adapter, complete, is given to the opposite adapter
ConvertBack ==
    /\ fn.op \in {"csv_to_parquet_stream", "csv_to_ndjson_stream"}
    /\ fn.state = "ended"
    /\ \E n \in 1..MaxUnits :
          fn' = [op |-> IF fn.op = "csv_to_parquet_stream"
                        THEN "parquet_to_csv_stream"
                        ELSE "ndjson_to_csv_stream",
                 state |-> "created",
                 args |-> <<OutputAsInput(fn.op, Concat(fn.result.chunks), n),
                            [round |-> TRUE, table |-> fn.args[1].table]>>,
                 result |-> NoOutput]
    /\ UNCHANGED <<handlerVars, tmpdir, reqs, cache, callers>>

AdaptersNext ==
    \/ CallAdapter
    \/ PullAdapter
    \/ CloseAdapter
    \/ ConvertBack

SpecAdapters == NdjsonInit /\ [][AdaptersNext]_vars

-----------------------------------------------------------------------------
(* SpecPrefetch: _prefetch_stream over an adapter given by what it does:
   whether the call raises, the chunks it yields, and how it ends after
   them. fn.args = <<adapter>>; fn.result = [kind, first, pulls, asked,
   out, error]: the stream returned, the chunk held by generator(), the
   next() calls made on the adapter and on the stream, the chunks the
   stream has yielded. *)

ChunkValues == {"c1", "c2"}

AdapterBehaviours ==
    [call : {"ok", "exc", "http"},
     chunks : UNION {[1..n -> ChunkValues] : n \in 0..MaxAdapterChunks},
     ending : {"stop", "exc", "http"}]

\* the n-th next() on the adapter's iterator
AdapterNext(a, n) ==
    IF n <= Len(a.chunks) THEN [kind |-> "chunk", chunk |-> <<a.chunks[n]>>]
    ELSE [kind |-> a.ending, chunk |-> <<>>]

\* what an exception leaves _prefetch_stream or generator() as
Reraised(kind) == IF kind = "http" THEN "http" ELSE "conversion_failed"

NoStream ==
    [kind |-> "none", first |-> <<>>, pulls |-> 0, asked |-> 0,
     out |-> <<>>, error |-> ""]

\* _prefetch_stream, lines 38-64
Prefetch(a) ==
    IF a.call # "ok"
    THEN [NoStream EXCEPT !.error = Reraised(a.call)]
    ELSE LET r == AdapterNext(a, 1)
         IN  CASE r.kind = "chunk" ->
                    [NoStream EXCEPT !.kind = "generator", !.pulls = 1,
                                     !.first = r.chunk]
               [] r.kind = "stop" ->
                    [NoStream EXCEPT !.kind = "empty", !.pulls = 1]
               [] OTHER ->
                    [NoStream EXCEPT !.pulls = 1, !.error = Reraised(r.kind)]

\* next() on the stream _prefetch_stream returned: iter(()) is exhausted;
\* generator() yields first_chunk when started and then yields from the
\* adapter's iterator, lines 55-62
StreamNextFirstLost(g, a) ==
    LET r == AdapterNext(a, g.pulls + 1)
        asked == [g EXCEPT !.asked = @ + 1, !.first = <<>>]
    IN  IF g.kind = "empty" THEN [asked EXCEPT !.kind = "done"]
        ELSE CASE r.kind = "chunk" ->
                    [asked EXCEPT !.pulls = @ + 1, !.out = @ \o r.chunk]
               [] r.kind = "stop" ->
                    [asked EXCEPT !.pulls = @ + 1, !.kind = "done"]
               [] OTHER ->
                    [asked EXCEPT !.pulls = @ + 1, !.kind = "failed",
                                  !.error = Reraised(r.kind)]
StreamNext(g, a) ==
    LET r == AdapterNext(a, g.pulls + 1)
        asked == [g EXCEPT !.asked = @ + 1]
    IN  IF g.kind = "empty" THEN [asked EXCEPT !.kind = "done"]
        ELSE IF g.first # <<>>
        THEN [asked EXCEPT !.out = @ \o g.first, !.first = <<>>]
        ELSE CASE r.kind = "chunk" ->
                    [asked EXCEPT !.pulls = @ + 1, !.out = @ \o r.chunk]
               [] r.kind = "stop" ->
                    [asked EXCEPT !.pulls = @ + 1, !.kind = "done"]
               [] OTHER ->
                    [asked EXCEPT !.pulls = @ + 1, !.kind = "failed",
                                  !.error = Reraised(r.kind)]

\* stream = _prefetch_stream(stored, spec)
CallPrefetch ==
    /\ fn.state = "idle"
    /\ \E a \in AdapterBehaviours :
          fn' = [op |-> "_prefetch_stream",
                 state |-> IF Prefetch(a).error # "" THEN "raised"
                           ELSE "returned",
                 args |-> <<a>>, result |-> Prefetch(a)]
    /\ UNCHANGED <<handlerVars, tmpdir, reqs, cache, callers>>

\* the consumer asks the stream for its next chunk
NextOfStream ==
    /\ fn.op = "_prefetch_stream"
    /\ fn.state = "returned"
    /\ fn.result.kind \in {"empty", "generator"}
    /\ fn' = [fn EXCEPT !.result = StreamNext(fn.result, fn.args[1])]
    /\ UNCHANGED <<handlerVars, tmpdir, reqs, cache, callers>>

PrefetchNext ==
    \/ CallPrefetch
    \/ NextOfStream

SpecPrefetch == NdjsonInit /\ [][PrefetchNext]_vars

-----------------------------------------------------------------------------
(* Properties of the conversion request (Spec) *)

\* the temp files of the batch that still exist
Leaked == {i \in DOMAIN stored : stored[i].path \in disk}

\* C1: when the response stream of a request that passed prefetch has been
\* fully drained, every StoredUpload temp file of the batch is deleted.
C1_DrainedDeleted == pc = "complete" => Leaked = {}

C1_Witness ==
    /\ pc = "complete"
    /\ Len(stored) > 1
    /\ emitted > Len(stored) + 1

\* C2: whenever the client disconnects after the streaming response was
\* built, every StoredUpload temp file of the request is deleted.
C2_AbortDeleted == pc = "aborted" => Leaked = {}

\* C3: single source, the adapter raises when called or first pulled: the
\* request fails with an error response, no byte was emitted, no response
\* exists, and the source's temp file is gone.
C3_SinglePrefetchFailure ==
    (pc = "failed" /\ failure.stage = "prefetch" /\ Len(stored) = 1) =>
        /\ err.status \in 400..599
        /\ emitted = 0
        /\ resp = NoResponse
        /\ Leaked = {}

C3_Witness ==
    /\ pc = "failed"
    /\ failure.stage = "prefetch"
    /\ Len(stored) = 1
    /\ ~failure.http

\* the first member, in batch order, whose prefetch raises
FirstMalformed ==
    CHOOSE i \in DOMAIN stored :
        /\ stored[i].path \in malformed
        /\ \A j \in 1..(i - 1) : stored[j].path \notin malformed

\* C4: several sources, the prefetch of a member fails: no archive byte was
\* delivered, no member was registered, the error is that of the first
\* failing member in batch order, and every temp file of the batch is gone.
C4_ZipPrefetchFailure ==
    (pc = "failed" /\ failure.stage = "prefetch" /\ Len(stored) > 1) =>
        /\ emitted = 0
        /\ resp = NoResponse
        /\ archive = <<>>
        /\ failure.member = FirstMalformed
        /\ err = IF failure.http THEN InvalidNdjson
                 ELSE ConversionError(stored[FirstMalformed].filename, failure.text)
        /\ Leaked = {}

C4_Witness ==
    /\ pc = "failed"
    /\ failure.stage = "prefetch"
    /\ Len(stored) = 4
    /\ failure.member = 2
    /\ stored[3].path \in malformed

\* C5: a response exists, or a byte was emitted, only after the first chunk
\* of every source of the batch was pulled or its adapter found empty.
C5_PrefetchBeforeResponse ==
    (resp.state # "none" \/ emitted > 0) =>
        /\ Len(streams) = Len(stored)
        /\ \A i \in DOMAIN streams :
              streams[i].pulled >= 1 \/ streams[i].state = "done"

C5_Witness ==
    /\ resp.state = "unstarted"
    /\ Len(stored) = MAX_FILES_PER_REQUEST
    /\ emitted = 0

C7_AcquireFailureCleansAll ==
    (pc = "failed" /\ failure.stage = "acquire") => disk = {}

C7_Witness ==
    /\ pc = "failed"
    /\ failure.stage = "acquire"
    /\ Len(stored) >= 1
    /\ Len(pending) >= 1
    /\ err.code = "file_too_large"

\* C10: a batch of 0 sources fails with missing_files and one of more than
\* MAX_FILES_PER_REQUEST with too_many_files, before anything is read or
\* created; a batch of 1..MAX_FILES_PER_REQUEST passes the count check.
C10_CountCheck ==
    LET total_count == filesLeft + urlsLeft
    IN  /\ (pc = "failed" /\ failure.stage = "count") =>
              /\ disk = {} /\ stored = <<>> /\ pending = <<>>
              /\ err.status = 400
              /\ \/ total_count = 0 /\ err.code = "missing_files"
                 \/ total_count > MAX_FILES_PER_REQUEST
                        /\ err.code = "too_many_files"
        /\ (pc = "uploads" /\ pending = <<>>) =>
              total_count \in 1..MAX_FILES_PER_REQUEST

C10_Witness ==
    /\ pc = "failed"
    /\ failure.stage = "count"
    /\ filesLeft + urlsLeft = MAX_FILES_PER_REQUEST + 1
    /\ urlsLeft > 0

\* the request is over: it failed before a response, or its response
\* stream was drained, was cut by an adapter failure, or was dropped
Terminated == pc \in {"failed", "complete", "truncated", "aborted"}

\* C13: on every path by which a request terminates, cleanup was invoked
\* exactly one time for each StoredUpload that was created.
C13_ExactlyOnce ==
    Terminated => \A p \in DOMAIN cleanups : cleanups[p] = 1

\* C16: a response for a batch of one StoredUpload, upload or URL, has the
\* ConversionSpec's media type and the file name derived from the source's
\* declared name, and no archive; a response for a larger batch is the
\* archive, application/zip named converted_files.zip.
C16_PathSelection ==
    resp.state # "none" =>
        /\ resp.status = 200
        /\ IF Len(stored) = 1
           THEN /\ resp.media_type = route.media_type
                /\ resp.filename = WithSuffix(stored[1].filename,
                                              route.output_suffix)
                /\ archive = <<>>
           ELSE /\ resp.media_type = "application/zip"
                /\ resp.filename = <<"converted_files", ".zip">>
                /\ Len(archive) = Len(stored)

C16_Witness ==
    /\ resp.state = "unstarted"
    /\ Len(stored) = 1
    /\ stored[1].filename = <<"beta", ".csv">>
    /\ resp.media_type = "application/x-ndjson"

\* batch order: the uploads in the order submitted, then the URLs in the
\* order submitted
BatchBefore(a, b) ==
    \/ a.kind = "upload" /\ b.kind = "url"
    \/ a.kind = b.kind /\ a.index < b.index

\* C17: the archive of a multi-source response has one member per
\* StoredUpload, named with the source's derived output filename, in batch
\* order; the archive reads member after member in that order, whatever
\* the members' conversions do.
C17_ArchiveOrder ==
    (resp.state # "none" /\ Len(stored) > 1) =>
        /\ Len(archive) = Len(stored)
        /\ \A i \in DOMAIN stored :
              /\ archive[i] = WithSuffix(stored[i].filename, route.output_suffix)
              /\ \A j \in DOMAIN stored :
                    i < j => BatchBefore(stored[i].origin, stored[j].origin)
              /\ i < zcur => streams[i].state = "done"
              /\ i > zcur => streams[i].pulled <= 1

C17_Witness ==
    /\ resp.state = "suspended"
    /\ Len(stored) = 4
    /\ stored[2].origin = [kind |-> "upload", index |-> 2]
    /\ stored[4].origin = [kind |-> "url", index |-> 2]
    /\ zcur = 3

\* an adapter raised after the response had begun
StreamFailed == \E i \in DOMAIN streams : streams[i].state = "failed"

\* C15: once an adapter has failed while producing a later chunk, the
\* response stream has ended with the status it was sent with, at least one
\* chunk was delivered before the failure and none is delivered after it,
\* and every temp file of the batch is deleted.
C15_TruncatedStream ==
    /\ [](StreamFailed =>
            /\ pc = "truncated"
            /\ resp.state = "truncated"
            /\ resp.status = 200
            /\ emitted >= 1
            /\ Leaked = {})
    /\ [][StreamFailed' => emitted' = emitted]_vars

C15_Witness ==
    /\ pc = "truncated"
    /\ Len(stored) > 1
    /\ failure.member = 2
    /\ emitted >= 3

\* C35: whenever _convert_payload raises after persist_sources has
\* returned, from a prefetch or from deriving an output or member name,
\* every StoredUpload temp file of the batch has been deleted.
C35_RaiseCleansUp ==
    (pc = "failed" /\ failure.stage \in {"prefetch", "name"})
       => Leaked = {}

\* an exception of a prefetch leaves no temp file
PrefetchRaiseCleansUp ==
    (pc = "failed" /\ failure.stage = "prefetch") => Leaked = {}

\* an adapter stream of the request that may still be pulled
Live(i) ==
    /\ pc \in {"zip", "respond"}
    /\ streams[i].state = "open"

\* C36: while an adapter stream of the request may still be pulled, the
\* temp file of every StoredUpload exists; a temp file is gone only when
\* the request is over: its response stream ended, failed or was closed,
\* or no response was built.
C36_NoPrematureCleanup ==
    /\ (\E i \in DOMAIN streams : Live(i)) => Leaked = DOMAIN stored
    /\ Leaked # DOMAIN stored => Terminated

C36_Witness ==
    /\ pc = "respond"
    /\ Len(stored) > 1
    /\ emitted >= 2
    /\ Live(1) /\ Live(2)
    /\ ~streams[1].first
    /\ Leaked = DOMAIN stored

\* the streams of adapters that ended without a chunk
Empty == {i \in DOMAIN streams : streams[i].pulled = 0}

\* C38: an adapter that ends without yielding a chunk is no error: its
\* prefetched stream is exhausted, a prefetch fails only on a malformed
\* payload, the single response is 200 with no chunk (the archive has the
\* member under its derived name), and a drained response leaves no temp
\* file.
C38_EmptyAdapter ==
    /\ \A i \in Empty : streams[i].state = "done"
    /\ (pc = "failed" /\ failure.stage = "prefetch")
          => stored[failure.member].path \in malformed
    /\ (Empty # {} /\ Len(stored) = 1 /\ resp # NoResponse)
          => /\ resp.status = 200
             /\ emitted = 0
             /\ err = NoError
             /\ pc \in {"respond", "complete", "aborted"}
    /\ (Empty # {} /\ Len(stored) > 1 /\ resp # NoResponse)
          => \A i \in Empty :
                archive[i] = WithSuffix(stored[i].filename,
                                        route.output_suffix)
    /\ (Empty # {} /\ pc = "complete") => Leaked = {}

C38_Witness ==
    /\ pc = "complete"
    /\ Len(stored) = 1
    /\ Empty = {1}
    /\ emitted = 0
    /\ resp.status = 200
    /\ Leaked = {}

-----------------------------------------------------------------------------
(* Properties of one acquisition call (SpecTransfer) *)

\* the call has ended
Returned == xfer.status \notin {"idle", "reading"}

\* the length of the payload: what was written and what is still to come
PayloadLen == xfer.written + xfer.left

\* the transfer itself did not fail
Delivered ==
    xfer.status \notin {"read_error", "bad_scheme", "connect_error", "bad_status"}

LimitText == <<ToString(xfer.max_bytes \div MiB)>>

\* C8, as claimed: a delivered payload longer than max_bytes fails with 413
\* file_too_large carrying the source's declared name and the limit, and
\* the partial temp file is gone.
C8_TooLargeNamesSource ==
    (Returned /\ Delivered /\ PayloadLen > xfer.max_bytes) =>
        /\ xfer.status = "too_large"
        /\ xfer.error.status = 413
        /\ xfer.error.code = "file_too_large"
        /\ Contains(xfer.error.message, xfer.name)
        /\ Contains(xfer.error.message, LimitText)
        /\ ~xfer.tmp

\* C8, amended: a delivered payload longer than max_bytes fails with 413
\* file_too_large, the message carries the limit in whole MiB and, for
\* persist_upload only, the declared name; the partial temp file is gone.
C8_TooLargeRejected ==
    (Returned /\ Delivered /\ PayloadLen > xfer.max_bytes) =>
        /\ xfer.status = "too_large"
        /\ xfer.error.status = 413
        /\ xfer.error.code = "file_too_large"
        /\ xfer.kind = "upload" => Contains(xfer.error.message, xfer.name)
        /\ Contains(xfer.error.message, LimitText)
        /\ ~xfer.tmp

C8_Witness ==
    /\ xfer.status = "too_large"
    /\ xfer.kind = "url"
    /\ xfer.written > 0
    /\ xfer.max_bytes = 2 * MiB

\* C9: the temp file never holds more than max_bytes bytes; the chunk that
\* takes the running total above max_bytes is counted but not written; a
\* delivered payload of exactly max_bytes bytes is stored whole.
C9_CeilingEnforced ==
    /\ xfer.written <= xfer.max_bytes
    /\ xfer.status = "too_large" =>
          /\ xfer.total_bytes > xfer.max_bytes
          /\ xfer.total_bytes = xfer.written + Min(xfer.chunk_size, xfer.left)
    /\ (Returned /\ Delivered /\ PayloadLen = xfer.max_bytes) =>
          /\ xfer.status = "stored"
          /\ xfer.written = xfer.max_bytes
          /\ xfer.tmp

C9_Witness ==
    /\ xfer.status = "stored"
    /\ xfer.written = xfer.max_bytes
    /\ xfer.chunk_size < xfer.max_bytes

\* the scheme of the url persist_url was called with
Scheme == xfer.url[1]

\* C11: persist_url with a scheme outside ALLOWED_REMOTE_SCHEMES fails with
\* 400 invalid_url_scheme, no client was created, no GET was issued and no
\* temp file exists; http and https in any letter case pass the check.
C11_SchemeCheckedFirst ==
    xfer.kind = "url" =>
        /\ Scheme \notin {"http", "https", "HTTP", "Https"} =>
              /\ xfer.status = "bad_scheme"
              /\ xfer.error.status = 400
              /\ xfer.error.code = "invalid_url_scheme"
        /\ Scheme \in {"http", "https", "HTTP", "Https"} =>
              xfer.status # "bad_scheme"
        /\ xfer.status = "bad_scheme" =>
              /\ xfer.clients = 0
              /\ xfer.gets = 0
              /\ ~xfer.tmp
              /\ xfer.written = 0

C11_Witness ==
    /\ xfer.status = "bad_scheme"
    /\ Scheme = ""
    /\ xfer.left > 0

\* C12: persist_url issues at most one GET; a timeout or network error, at
\* connect time or in the middle of the body, fails with download_error; a
\* non-2xx response fails with download_failed and nothing was written; no
\* failed call leaves its temp file.
C12_NoRetry ==
    xfer.kind = "url" =>
        /\ xfer.clients <= 1
        /\ xfer.gets <= 1
        /\ xfer.status \in {"connect_error", "read_error"} =>
              /\ xfer.error.status = 400
              /\ xfer.error.code = "download_error"
        /\ xfer.status = "bad_status" =>
              /\ xfer.error.code = "download_failed"
              /\ xfer.error.status \notin 200..299
              /\ xfer.total_bytes = 0
              /\ xfer.written = 0
        /\ (Returned /\ xfer.status # "stored") => ~xfer.tmp

C12_Witness ==
    /\ xfer.kind = "url"
    /\ xfer.status = "read_error"
    /\ xfer.written > 0
    /\ xfer.gets = 1

-----------------------------------------------------------------------------
(* Properties of cleanup (SpecCleanup) *)

\* C14: StoredUpload.cleanup never raises; once it was called the file is
\* gone; a call on a StoredUpload whose file is gone changes no file, so
\* cleanup applied twice leaves what cleanup applied once leaves.
C14_CleanupIdempotent ==
    pc \in {"cleanup", "failed"} =>
        /\ pc = "cleanup"
        /\ err = NoError
        /\ \A i \in DOMAIN stored :
              LET once == Cleanup(disk, stored[i])
                  twice == Cleanup(once.disk, stored[i])
              IN  /\ cleanups[i] >= 1 => stored[i].path \notin disk
                  /\ stored[i].path \notin disk => once.disk = disk
                  /\ ~once.raised
                  /\ twice = once

C14_Witness ==
    /\ pc = "cleanup"
    /\ Len(stored) = MaxFiles
    /\ cleanups[1] = 2
    /\ cleanups[2] = 0
    /\ 2 \in disk

-----------------------------------------------------------------------------
(* Properties of the output names (SpecNames) *)

HasExtension(name) == Len(name) > 1 /\ name[Len(name)] \in Extensions

\* out is name with its last extension, if it has one, replaced by suffix
Swapped(name, out, suffix) ==
    /\ Len(out) >= 1
    /\ out[Len(out)] = suffix
    /\ SubSeq(out, 1, Len(out) - 1) =
          IF HasExtension(name) THEN SubSeq(name, 1, Len(name) - 1) ELSE name

\* the output names of the batch, once derived
OutputNames == IF Len(stored) = 1 THEN <<resp.filename>> ELSE archive

\* C18, as claimed: every output name is the source's declared name with
\* the last extension stripped and the suffix appended, and colliding names
\* are all registered.
C18_DeclaredNameSwapped ==
    pc = "derived" =>
        /\ Len(OutputNames) = Len(stored)
        /\ \A i \in DOMAIN stored :
              Swapped(stored[i].filename, OutputNames[i], route.output_suffix)

\* C18, amended: every output name is the final path component of the
\* source's declared name with the last extension stripped and the suffix
\* appended (a name without extension gets the suffix appended); the
\* archive has a member for every source, also when names collide.
C18_FinalComponentSwapped ==
    /\ pc = "derived" =>
          /\ Len(OutputNames) = Len(stored)
          /\ \A i \in DOMAIN stored :
                Swapped(PathName(stored[i].filename), OutputNames[i],
                        route.output_suffix)
    /\ (pc = "failed" /\ failure.stage = "name") =>
          \E i \in DOMAIN stored : PathName(stored[i].filename) = <<>>

C18_Witness ==
    /\ pc = "derived"
    /\ Len(stored) = 2
    /\ stored[1].filename = <<"alpha", ".parquet">>
    /\ stored[2].filename = <<"dir/", "alpha", ".csv">>
    /\ archive[1] = archive[2]

-----------------------------------------------------------------------------
(* Properties of the preview request (SpecPreview) *)

\* get_preview has ended after its acquisition succeeded
PreviewEnded ==
    preview.state \in {"returned", "unsupported", "extractor_failed"}

\* C19: when a preview request whose acquisition succeeded has ended, with
\* a result, with unsupported_preview or with preview_failed, its temp file
\* is deleted.
C19_PreviewCleansUp ==
    /\ PreviewEnded => (Leaked = {} /\ disk = {})
    /\ preview.state \in {"rejected", "not_acquired"} => disk = {}

\* the temp file of a preview is gone only when the handler is past the
\* extractor: it returned, raised, or the suffix has none
PreviewNoPrematureCleanup ==
    (stored # <<>> /\ Leaked # DOMAIN stored) => PreviewEnded

C19_Witness ==
    /\ preview.state = "extractor_failed"
    /\ stored[1].origin.kind = "url"
    /\ cleanups = <<1>>

\* the declared name ends in one of these extensions
EndsIn(filename, extensions) ==
    HasExtension(PathName(filename))
        /\ filename[Len(filename)] \in extensions

\* C20: a preview that has ended invoked the parquet extractor for
\* .parquet, the csv extractor for .csv and the ndjson extractor for
\* .ndjson / .jsonl, in any letter case, and no other; for any other name
\* it invoked none and failed with 400 unsupported_preview; an exception of
\* the extractor is answered with 400 preview_failed.
C20_PreviewDispatch ==
    PreviewEnded =>
        LET name == stored[1].filename
        IN  /\ EndsIn(name, {".parquet", ".Parquet"}) =>
                  preview.extractor = "get_parquet_schema_and_preview"
            /\ EndsIn(name, {".csv", ".CSV"}) =>
                  preview.extractor = "get_csv_schema_and_preview"
            /\ EndsIn(name, {".ndjson", ".NDJSON", ".jsonl", ".JSONL"}) =>
                  preview.extractor = "get_ndjson_schema_and_preview"
            /\ ~EndsIn(name, {".parquet", ".Parquet", ".csv", ".CSV", ".ndjson",
                              ".NDJSON", ".jsonl", ".JSONL"}) =>
                  /\ preview.extractor = ""
                  /\ preview.state = "unsupported"
            /\ preview.state = "unsupported" =>
                  /\ preview.extractor = ""
                  /\ err.status = 400
                  /\ err.code = "unsupported_preview"
            /\ preview.state = "extractor_failed" =>
                  /\ err.status = 400
                  /\ err.code = "preview_failed"
                  /\ Contains(err.message, failure.text)
            /\ preview.state = "returned" =>
                  /\ err = NoError
                  /\ resp.status = 200

C20_Witness ==
    /\ preview.state = "returned"
    /\ stored[1].filename = <<"data", ".JSONL">>
    /\ preview.extractor = "get_ndjson_schema_and_preview"

\* C21: a preview request with neither a file nor a non-blank url is
\* rejected with 400 missing_file, no acquisition call was made and no temp
\* file exists; a request with both a file and a url acquires the file and
\* neither creates a client nor issues a GET.
C21_PreviewInput ==
    preview.state \notin {"none", "received"} =>
        /\ (~preview.hasFile /\ preview.given \in {"none", "blank"}) <=>
              preview.state = "rejected"
        /\ preview.state = "rejected" =>
              /\ err.status = 400
              /\ err.code = "missing_file"
              /\ preview.call = IdleXfer
              /\ stored = <<>>
              /\ disk = {}
        /\ preview.hasFile =>
              /\ preview.call.kind = "upload"
              /\ preview.call.clients = 0
              /\ preview.call.gets = 0
        /\ (~preview.hasFile /\ preview.given = "url") =>
              preview.call.kind = "url"

C21_Witness ==
    /\ preview.state = "returned"
    /\ preview.hasFile
    /\ preview.given = "url"
    /\ preview.url.scheme = "https"
    /\ stored[1].origin.kind = "upload"

-----------------------------------------------------------------------------
(* Properties of the preview extractors (SpecExtract) *)

\* the rows of the input file: its records, or its lines below the header
InputRows ==
    IF fn.op = "get_csv_schema_and_preview" THEN Tail(fn.args[1])
    ELSE fn.args[1]

\* the literal backslash-n sequences in the rows of a text input
Escapes ==
    IF fn.op = "get_parquet_schema_and_preview" THEN {}
    ELSE {<<i, j>> \in (DOMAIN InputRows) \X (1..3) :
             j \in DOMAIN InputRows[i] /\ InputRows[i][j] = Escape}

\* C22, as claimed: the preview returns min(50, rows of the input) rows.
C22_RowsOfInput ==
    (fn.state = "returned" /\ fn.op \in Extractors) =>
        Len(fn.result) = Min(50, Len(InputRows))

\* C22, amended: the preview returns at most 50 rows; for Parquet their
\* number is min(50, rows of the input); for CSV and NDJSON every literal
\* backslash-n in a row splits it, and the number is min(50, rows after
\* the split).
C22_RowsCapped ==
    (fn.state = "returned" /\ fn.op \in Extractors) =>
        /\ Len(fn.result) <= 50
        /\ Len(fn.result) = Min(50, Len(InputRows) + Cardinality(Escapes))
        /\ \A i \in DOMAIN fn.result : Escape \notin
              {fn.result[i][j] : j \in DOMAIN fn.result[i]}
              \/ fn.op = "get_parquet_schema_and_preview"

C22_Witness ==
    /\ fn.state = "returned"
    /\ fn.op = "get_csv_schema_and_preview"
    /\ Len(InputRows) = 49
    /\ Len(fn.result) = 50

-----------------------------------------------------------------------------
(* Properties of concurrent requests (SpecConcurrent) *)

InFlight(r) == reqs[r].pc \notin {"idle", "done"}

\* the StoredUploads of request r
StoredBy(r) == {reqs[r].stored[i] : i \in DOMAIN reqs[r].stored}

\* the temp files request r is working with
Held(r) == StoredBy(r) \cup ({reqs[r].writing, reqs[r].scratch} \ {0})

\* C23: under any interleaving of requests, every acquisition writes a temp
\* file of its own, distinct from every file of another request; no write
\* reaches a StoredUpload's file after its acquisition completed; and every
\* temp file of a request in flight still exists, so the cleanup of another
\* request has not deleted it.
C23_Isolation ==
    /\ \A r \in Requests : InFlight(r) =>
          \A n \in Held(r) : tmpdir[n].exists /\ tmpdir[n].owner = r
    /\ \A r1, r2 \in Requests :
          (r1 # r2 /\ InFlight(r1) /\ InFlight(r2)) =>
              Held(r1) \cap Held(r2) = {}
    /\ \A r \in Requests : \A i, j \in DOMAIN reqs[r].stored :
          i # j => reqs[r].stored[i] # reqs[r].stored[j]
    /\ \A r \in Requests : \A n \in StoredBy(r) :
          tmpdir[n].sealed /\ ~tmpdir[n].open
    /\ \A n \in TempNames : ~tmpdir[n].late

C23_Witness ==
    /\ reqs[1].pc = "cleaning" /\ Len(reqs[1].stored) = 1
    /\ reqs[2].pc = "converting" /\ Len(reqs[2].stored) = 2
    /\ reqs[2].scratch # 0
    /\ Cardinality({n \in TempNames : tmpdir[n].exists}) = 4

-----------------------------------------------------------------------------
(* Properties of the persistence sink (SpecSink) *)

\* C24: the cached client is constructed at most once; every call that
\* got a client got that one instance; a failed construction leaves the
\* cache empty, and a later call constructs again.
C24_InitializeOnce ==
    /\ cache.constructed <= 1
    /\ cache.client = cache.constructed
    /\ \A c \in Callers :
          /\ callers[c].pc \in {"inserting", "returned"} =>
                callers[c].client = 1 /\ cache.client = 1
          /\ callers[c].client \in {0, cache.client}
          /\ (callers[c].pc = "raised" /\ ~callers[c].attempted) =>
                callers[c].client = 0

C24_Witness ==
    /\ cache.failed >= 1
    /\ cache.constructed = 1
    /\ callers[2].pc = "inserting" /\ callers[2].client = 1
    /\ callers[3].pc = "inserting" /\ callers[3].client = 1
    /\ callers[1].pc = "raised" /\ callers[1].client = 0

\* C25: insert_feedback and insert_session_metric end only by returning
\* or by HTTP 500 with the function's not_configured code (client not
\* resolved, no insert attempted) or its persist_failed code (the insert
\* raised); no other exception leaves them.
C25_SinkErrorsTranslated ==
    \A c \in Callers : callers[c].pc = "raised" =>
        /\ callers[c].error.status = 500
        /\ IF callers[c].client = 0
           THEN /\ callers[c].error.code = NotConfigured(callers[c].op)
                /\ ~callers[c].attempted
           ELSE /\ callers[c].error.code = PersistFailed(callers[c].op)
                /\ callers[c].attempted

-----------------------------------------------------------------------------
(* Properties of the chunk iterator (SpecChunks) *)

\* C26: with a positive chunk size the i-th chunk yielded is bytes
\* (i-1)*n+1 .. min(i*n, length) of the file, in every invocation: each
\* chunk is non-empty and at most n long, all but the last exactly n; the
\* chunks never pass the end of the file; the generator ends exactly when
\* its chunks make up the whole content, and on an empty file it ends
\* without a chunk.
C26_Chunks ==
    (fn.op = "make_iterator_from_tempfile" /\ fn.args[2] > 0) =>
        LET content == fn.args[1]
            n == fn.args[2]
            chunks == fn.result
        IN  /\ \A i \in DOMAIN chunks :
                  /\ chunks[i] = SubSeq(content, (i - 1) * n + 1,
                                        Min(i * n, Len(content)))
                  /\ Len(chunks[i]) >= 1
                  /\ Len(chunks[i]) <= n
                  /\ i < Len(chunks) => Len(chunks[i]) = n
            /\ Len(Concat(chunks)) <= Len(content)
            /\ fn.state = "ended" => Concat(chunks) = content
            /\ (fn.state = "ended" /\ content = <<>>) => chunks = <<>>
            /\ fn.state = "created" => chunks = <<>>

C26_Witness ==
    /\ fn.op = "make_iterator_from_tempfile"
    /\ fn.state = "ended"
    /\ fn.args = <<(<<0, 1, 1>>), 2, 2>>
    /\ fn.result = <<(<<0, 1>>), (<<1>>)>>

\* C27: a chunk size of zero or less is rejected before any read: the
\* iterator yields and ends nothing, the acquisition stores nothing.
C27_ChunkSizeRejected ==
    (fn.op \in {"make_iterator_from_tempfile", "persist_upload"}
        /\ fn.args[2] <= 0) =>
        /\ fn.state \in {"created", "called", "raised"}
        /\ fn.result = <<>>

-----------------------------------------------------------------------------
(* Properties of _filename_from_url (SpecFilename) *)

FilenameReturned == fn.op = "_filename_from_url" /\ fn.state = "returned"

\* the header has a filename parameter with a value
HasCdFilename ==
    \E i \in DOMAIN fn.args[2] :
        Lower(fn.args[2][i].key) = "filename" /\ fn.args[2][i].value # <<>>

\* the first such value
FirstCdFilename ==
    LET h == fn.args[2]
        i == CHOOSE k \in DOMAIN h :
                 /\ Lower(h[k].key) = "filename" /\ h[k].value # <<>>
                 /\ \A j \in 1..(k - 1) :
                       ~(Lower(h[j].key) = "filename" /\ h[j].value # <<>>)
    IN  h[i].value

\* the last segment of the URL path as written: what follows its last "/"
LastSegment ==
    LET path == fn.args[1]
        slashes == {i \in DOMAIN path : path[i] = "/"}
    IN  IF slashes = {} THEN path
        ELSE LET last == CHOOSE k \in slashes : \A j \in slashes : j <= k
             IN  SubSeq(path, last + 1, Len(path))

\* the decoded path ends in a component c: c has no "/", is neither empty
\* nor ".", and only "/" and "." components of no name follow it
EndsInComponent(c) ==
    LET text == Unquote(fn.args[1])
    IN  /\ c # <<>> /\ c # <<".">>
        /\ \A i \in DOMAIN c : c[i] # "/"
        /\ \E a \in 1..Len(text) : \E b \in a..Len(text) :
              /\ SubSeq(text, a, b) = c
              /\ text[a - 1] = "/"
              /\ \A j \in (b + 1)..Len(text) :
                    /\ text[j] \in {"/", "."}
                    /\ text[j] = "." =>
                          /\ text[j - 1] = "/"
                          /\ j < Len(text) => text[j + 1] = "/"
              /\ b < Len(text) => text[b + 1] = "/"

-----------------------------------------------------------------------------
(* Properties of the NDJSON adapter (SpecNdjson) *)

\* the fields of a record that are no objects, at any depth, in the order
\* of the record, each with the path of keys that leads to it
RECURSIVE LeafSeq(_, _)
LeafSeq(fields, parent) ==
    IF fields = <<>> THEN <<>>
    ELSE LET key == parent \o Head(fields)[1]
             value == Head(fields)[2]
         IN  (IF value.t = "dict" THEN LeafSeq(value.v, key)
              ELSE <<[key |-> key, value |-> value]>>)
                 \o LeafSeq(Tail(fields), parent)

\* the cell a leaf is to give: its JSON text for a list, itself otherwise
CellOf(leaf) ==
    IF leaf.value.t = "list" THEN Scalar(JsonText(leaf.value))
    ELSE leaf.value

Flattened == fn.op = "_flatten_record" /\ fn.state = "returned"

IsPrefix(p, q) == Len(p) <= Len(q) /\ SubSeq(q, 1, Len(p)) = p

\* C30, as claimed: every cell is a scalar; every scalar or list field, at
\* any depth, has the column of its dot-joined path holding its value or
\* its JSON text; and no field of the record is without a column.
C30_NoFieldDropped ==
    Flattened =>
        LET leaves == LeafSeq(fn.args[1], <<>>)
        IN  /\ \A i \in DOMAIN fn.result : fn.result[i].value.t = "scalar"
            /\ \A l \in DOMAIN leaves : \E i \in DOMAIN fn.result :
                  /\ fn.result[i].key = leaves[l].key
                  /\ fn.result[i].value = CellOf(leaves[l])
            /\ \A f \in DOMAIN fn.args[1] : \E i \in DOMAIN fn.result :
                  IsPrefix(fn.args[1][f][1], fn.result[i].key)

\* C30, amended: every cell is a scalar; the columns are exactly the
\* dot-joined paths of the scalar and list fields at any depth, each
\* once; a column holds the value, or for a list the JSON text, of the
\* last field of the record with that path; an object without fields
\* gives no column.
C30_LeavesFlattened ==
    Flattened =>
        LET leaves == LeafSeq(fn.args[1], <<>>)
        IN  /\ \A i \in DOMAIN fn.result : fn.result[i].value.t = "scalar"
            /\ \A i, j \in DOMAIN fn.result :
                  i # j => fn.result[i].key # fn.result[j].key
            /\ {fn.result[i].key : i \in DOMAIN fn.result}
                  = {leaves[l].key : l \in DOMAIN leaves}
            /\ \A i \in DOMAIN fn.result :
                  LET same == {l \in DOMAIN leaves :
                                 leaves[l].key = fn.result[i].key}
                      last == CHOOSE l \in same : \A k \in same : k <= l
                  IN  fn.result[i].value = CellOf(leaves[last])

C30_Witness ==
    /\ Flattened
    /\ fn.args[1] =
          <<(<<(<<"a">>),
               Dict(<<(<<(<<"b">>),
                         Dict(<<(<<(<<"c">>), Scalar(<<"1">>)>>)>>)>>)>>)>>),
            (<<(<<"id">>), List(<<Scalar(<<"1">>), Scalar(<<"2">>)>>)>>)>>
    /\ fn.result =
          <<[key |-> <<"a", "b", "c">>, value |-> Scalar(<<"1">>)],
            [key |-> <<"id">>,
             value |-> Scalar(<<"[", "1", ", ", "2", "]">>)]>>

Converted == fn.op = "ndjson_to_csv_stream" /\ fn.state = "returned"

\* the flattened records of the converted file
Flats == [r \in DOMAIN fn.args[1] |-> FlattenRecord(fn.args[1][r])]

\* where a key is first seen: record r, place i, as 10 * r + i
FirstSeen(k) ==
    LET hit == {p \in {<<r, i>> : r \in DOMAIN Flats, i \in 1..9} :
                  /\ p[2] \in DOMAIN Flats[p[1]]
                  /\ Flats[p[1]][p[2]].key = k}
        at == {10 * p[1] + p[2] : p \in hit}
    IN  CHOOSE p \in at : \A q \in at : p <= q

\* C29: the CSV columns are the flattened keys of all records, each once,
\* in the order they are first seen; every record gives one row over all
\* columns, with the text of its value in the columns it has and an empty
\* value in the others.
C29_ColumnUnion ==
    Converted =>
        LET header == fn.result[1].header
            rows == fn.result[1].rows
        IN  /\ \A i, j \in DOMAIN header : i # j => header[i] # header[j]
            /\ {header[i] : i \in DOMAIN header}
                  = UNION {{Flats[r][i].key : i \in DOMAIN Flats[r]} :
                             r \in DOMAIN Flats}
            /\ \A i, j \in DOMAIN header :
                  i < j => FirstSeen(header[i]) < FirstSeen(header[j])
            /\ Len(rows) = Len(fn.args[1])
            /\ \A r \in DOMAIN rows :
                  /\ Len(rows[r]) = Len(header)
                  /\ \A j \in DOMAIN header :
                        LET has == {i \in DOMAIN Flats[r] :
                                      Flats[r][i].key = header[j]}
                        IN  IF has = {} THEN rows[r][j] = <<>>
                            ELSE \A i \in has :
                                   rows[r][j] = Flats[r][i].value.v

C29_Witness ==
    /\ Converted
    /\ Len(fn.args[1]) = 2
    /\ fn.result[1].header = <<(<<"id">>), (<<"a", "b">>), (<<"tags">>)>>
    /\ fn.result[1].rows =
          <<(<<(<<"1">>), <<>>, <<>>>>),
            (<<<<>>, (<<"2">>), (<<"[", "1", ", ", "2", "]">>)>>)>>

-----------------------------------------------------------------------------
(* Properties of _iter_ndjson_lines (SpecNdjson) *)

\* the pieces of a line between its literal escape sequences
RECURSIVE SplitAtEscapes(_)
SplitAtEscapes(line) ==
    LET at == {i \in DOMAIN line : line[i] \in {Escape, EscapeCrLf}}
    IN  IF at = {} THEN <<line>>
        ELSE LET i == CHOOSE k \in at : \A j \in at : k <= j
             IN  <<SubSeq(line, 1, i - 1)>>
                     \o SplitAtEscapes(SubSeq(line, i + 1, Len(line)))

\* the records of a file: of every line the pieces between its escape
\* sequences, without the white space around them and without the blank
\* ones
RECURSIVE LogicalRecords(_)
LogicalRecords(lines) ==
    IF lines = <<>> THEN <<>>
    ELSE SelectSeq([i \in DOMAIN SplitAtEscapes(Head(lines)) |->
                       Strip(SplitAtEscapes(Head(lines))[i])],
                   LAMBDA c : c # <<>>)
             \o LogicalRecords(Tail(lines))

IteratedLines == fn.op = "_iter_ndjson_lines" /\ fn.state = "returned"

\* C31: a line is split at each literal backslash-n and
\* backslash-r-backslash-n, blank pieces are skipped, and every other piece
\* is one record, whole.
C31_SplitAtEscapes ==
    IteratedLines => fn.result = LogicalRecords(fn.args[1])

\* the lines on which C31 fails hold an escape sequence and, inside a
\* piece, another line boundary
OnlyOtherBoundaries ==
    (IteratedLines /\ fn.result # LogicalRecords(fn.args[1])) =>
        \E l \in DOMAIN fn.args[1] :
            /\ \E i \in DOMAIN fn.args[1][l] :
                  fn.args[1][l][i] \in {Escape, EscapeCrLf}
            /\ \E i \in DOMAIN fn.args[1][l] : fn.args[1][l][i] = "LS"


-----------------------------------------------------------------------------
(* Properties of the adapters (SpecAdapters) *)

\* the adapter of a round trip has finished
RoundTripDone ==
    /\ fn.op \in {"parquet_to_csv_stream", "ndjson_to_csv_stream"}
    /\ fn.state \in {"ended", "raised"}
    /\ fn.args[2].round

Recovered == ParseCsv(Concat(fn.result.chunks))

HasLineFeed(table) ==
    \E r \in DOMAIN table.rows : \E c \in DOMAIN table.rows[r] :
       \E i \in DOMAIN table.rows[r][c] : table.rows[r][c][i] = "NL"

\* C32: for both round trips (CSV to Parquet to CSV, CSV to NDJSON to CSV)
\* and every valid CSV, the table recovered from the second adapter's
\* chunks equals the original row for row and column for column.
C32_RoundTrip ==
    RoundTripDone =>
       /\ fn.state = "ended"
       /\ Recovered = fn.args[2].table

\* where the round trip holds: the table has a row, and on the NDJSON
\* trip no value with a line feed
RoundTripOfRows ==
    (/\ RoundTripDone
     /\ fn.args[2].table.rows # <<>>
     /\ fn.op = "ndjson_to_csv_stream" => ~HasLineFeed(fn.args[2].table))
       => /\ fn.state = "ended"
          /\ Recovered = fn.args[2].table

\* C33: each of the four adapters fails on malformed input at the first
\* pull and never after it has yielded a chunk.
C33_FailsAtFirstAccess ==
    (fn.op \in Adapters /\ fn.state = "raised") => fn.result.chunks = <<>>

\* the three adapters that convert into a temp file fail at the first pull
TempFileAdaptersFailFirst ==
    (/\ fn.op \in Adapters \ {"parquet_to_csv_stream"}
     /\ fn.state = "raised") => fn.result.chunks = <<>>

\* C34: the temp files an adapter made are deleted on every exit path:
\* exhaustion, a conversion error, early close.
C34_TempFilesDeleted ==
    (fn.op \in Adapters /\ fn.state \in {"ended", "raised", "closed"})
       => fn.result.temps = {}

\* the exit paths other than an invalid NDJSON line leave no temp file
TempFilesDeletedOtherwise ==
    (/\ fn.op \in Adapters
     /\ fn.state \in {"ended", "raised", "closed"}
     /\ ~(fn.op = "ndjson_to_csv_stream" /\ fn.state = "raised"))
       => fn.result.temps = {}

\* the number of chunk units that are the header line
HeaderLines(chunks, header) ==
    Cardinality({i \in DOMAIN Concat(chunks) : Concat(chunks)[i] = header})

\* C39: for every Parquet input, zero rows included, the CSV of
\* parquet_to_csv_stream has the header line exactly once, first in the
\* first chunk.
C39_HeaderOnce ==
    (/\ fn.op = "parquet_to_csv_stream"
     /\ fn.state = "ended"
     /\ fn.args[1].malformed = "no")
       => /\ fn.result.chunks # <<>>
          /\ Head(Head(fn.result.chunks)) = fn.args[1].table.header
          /\ HeaderLines(fn.result.chunks, fn.args[1].table.header) = 1

\* with at least one row the header is there once and first
HeaderOnceOfRows ==
    (/\ fn.op = "parquet_to_csv_stream"
     /\ fn.state = "ended"
     /\ fn.args[1].malformed = "no"
     /\ fn.args[1].table.rows # <<>>)
       => /\ fn.result.chunks # <<>>
          /\ Head(Head(fn.result.chunks)) = fn.args[1].table.header
          /\ HeaderLines(fn.result.chunks, fn.args[1].table.header) = 1


-----------------------------------------------------------------------------
(* Properties of _prefetch_stream (SpecPrefetch) *)

Prefetched == fn.op = "_prefetch_stream" /\ fn.state = "returned"

\* C37: the stream of _prefetch_stream yields the adapter's chunks, in
\* their order, each once, the prefetched one neither lost nor doubled:
\* what it has yielded and what it holds are the chunks pulled so far, and
\* all of them when it has ended. The adapter is pulled once by the
\* prefetch and then once for each request of the consumer after the first.
C37_PrefetchTransparent ==
    Prefetched =>
       LET g == fn.result
           a == fn.args[1]
       IN  /\ g.out \o g.first = SubSeq(a.chunks, 1, Len(g.out \o g.first))
           /\ g.kind = "generator" => Len(g.out \o g.first) = g.pulls
           /\ g.kind \in {"done", "failed"} => g.out = a.chunks
           /\ g.pulls = IF g.asked <= 1 THEN 1 ELSE g.asked
           /\ g.first # <<>> <=> (g.kind = "generator" /\ g.asked = 0)

C37_Witness ==
    /\ Prefetched
    /\ fn.result.kind = "done"
    /\ fn.args[1].chunks = <<"c1", "c2", "c1">>
    /\ fn.result.out = fn.args[1].chunks
    /\ fn.result.asked = 4
    /\ fn.result.pulls = 4

====
